---- MODULE Spec2Model ----
(***************************************************************************)
(* A model of odfuzz/entities.py: the $filter expression generator         *)
(* (FilterQuery), its flat Part/Logical/Group graph (FilterOption), the    *)
(* serializer (FilterOptionBuilder) and the mutator (FilterOptionDeleter), *)
(* the $top/$skip range generators, QueryGroup.random_options, the         *)
(* function-family restriction and the QueryGroup construction.            *)
(*                                                                         *)
(* random.random() is a nondeterministic draw r in Draws, read as r/100;   *)
(* every decision is then computed from r the way the code computes it.    *)
(* uuid ids are fresh ids <<kind, n>>.  A missing dict key is NoId.        *)
(***************************************************************************)
EXTENDS Integers, Sequences, FiniteSets, TLC

VARIABLES
    pc,        \* where the filter pipeline is: idle, generating, generated, raised, built, deleted
    entity,    \* the entity type handed to FilterQuery: the list of its properties
    fq,        \* the fields of FilterQuery that generate() works on
    stack,     \* the grammar functions still to run (the Python call stack), top first
    steps,     \* grammar steps taken by the running generate()
    built,     \* the result of FilterOptionBuilder.build() on the generated option
    del,       \* the last FilterOptionDeleter run: its inputs, the graph it left, the rebuilt string
    paging,    \* the TopQuery and the SkipQuery of one QueryGroup and the last value generated
    qgroup,    \* a QueryGroup: the entity set of the metadata model, the restrictions, its options
    functions, \* the func_ methods of the function classes and the FilterFunctionsGroup of each entity set
    accessible, \* a NonAddressableEntity and the AccessibleEntity it produced last, with its path
    sampled,   \* the items handed to weighted_random, the draw and what it returned
    capability, \* a property of the metadata model and what patch_proprties installed on it
    selector,  \* a ProprtiesSelector and the results of the calls made on it
    earlier    \* the generate() calls a FilterQuery made before the running one, and what they returned

filterVars == <<pc, entity, fq, stack, steps, built, del>>

units == <<accessible, sampled, capability, selector, earlier>>

others == <<paging, qgroup, functions, units>>

vars == <<pc, entity, fq, stack, steps, built, del, paging, qgroup, functions,
          accessible, sampled, capability, selector, earlier>>

---------------------------------------------------------------------------
(* Bounds of the model. *)

\* generate() is cut off once the Parts in the graph and the Parts its pending
\* grammar functions are yet to add exceed this
MaxParts == 4
\* odfuzz.constants.RECURSION_LIMIT; the constants module is not part of the
\* sources, so the ceiling is a parameter of the model
RECURSION_LIMIT == 2
MaxStack == 8
MaxFunctionParts == 2

\* INT_MAX, and the 1000 that TopQuery._set_max_range caps the range at, scaled
\* down together: MaxTopRange < INT_MAX as 1000 < INT_MAX
INT_MAX == 20
MaxTopRange == 10
\* odfuzz.constants.MAX_MULTI_VALUES, a parameter for the same reason
MAX_MULTI_VALUES == 2

\* the values random.random() is drawn from, in hundredths
Draws == {0, 30, 50, 70, 99}

---------------------------------------------------------------------------
(* Constants of odfuzz.constants, in hundredths. *)

FUNCTION_WEIGHT == 30
SINGLE_VALUE_PROB == 10
LOGICAL_OPERATORS == << <<"and", 50>>, <<"or", 50>> >>
BOOLEAN_OPERATORS == << <<"eq", 50>>, <<"ne", 50>> >>
\* gt and lt take the same branches as ne everywhere in entities.py
EXPRESSION_OPERATORS == << <<"eq", 30>>, <<"ne", 30>>, <<"ge", 20>>, <<"le", 20>> >>

---------------------------------------------------------------------------
(* Helpers of Python semantics. *)

NoId == <<"none", 0>>
None == "None"

\* round(n / d) for n >= 0, d > 0: Python 3 rounds half to even
RoundHalfEven(n, d) ==
    LET q == n \div d
        rem == n % d
    IN  IF 2 * rem < d THEN q
        ELSE IF 2 * rem > d THEN q + 1
        ELSE IF q % 2 = 0 THEN q ELSE q + 1

\* round(random.random() * (length - 1)) with random.random() = r / 100
RandomIndex(r, length) == RoundHalfEven(r * (length - 1), 100)

\* a scan that compares the same random_number with every weight
RECURSIVE WeightedRandomUndecremented(_, _, _)
WeightedRandomUndecremented(items, i, random_number) ==
    IF i > Len(items) THEN None
    ELSE IF random_number < items[i][2] THEN items[i][1]
    ELSE WeightedRandomUndecremented(items, i + 1, random_number)

RECURSIVE weighted_random_from(_, _, _)
weighted_random_from(items, i, random_number) ==
    IF i > Len(items) THEN None
    ELSE IF random_number < items[i][2] THEN items[i][1]
    ELSE weighted_random_from(items, i + 1, random_number - items[i][2])

weighted_random(items, r) == weighted_random_from(items, 1, r)

\* del list[index] / list.pop(index), index counted from 1
RemoveAt(list, index) ==
    SubSeq(list, 1, index - 1) \o SubSeq(list, index + 1, Len(list))

Reverse(list) == [i \in 1..Len(list) |-> list[Len(list) + 1 - i]]

SeqToSet(list) == {list[i] : i \in 1..Len(list)}

---------------------------------------------------------------------------
(* The property capability and the entity type (pyodata objects).          *)
(* A property is [name, required_in_filter, filter_restriction, typ];      *)
(* an entity is [proprties: the list of its properties, draft: the name of *)
(* the draft property or None].                                            *)

Prop(name, required, restriction, typ) ==
    [name |-> name, required_in_filter |-> required,
     filter_restriction |-> restriction, typ |-> typ]

\* proprty.operators as patch_proprty_operator installs it
Operators(proprty) ==
    IF proprty.typ = "Edm.Boolean" THEN BOOLEAN_OPERATORS ELSE EXPRESSION_OPERATORS

\* the name of a Part: a property, or a function call on a property
PropName(name) == [func |-> "", prop |-> name]
FuncName(func, name) == [func |-> func, prop |-> name]
NoName == [func |-> "", prop |-> None]

\* tokens of an option string
LeafToken(part) == [kind |-> "leaf", name |-> part.name, operator |-> part.operator]
ConnToken(name) == [kind |-> name, name |-> NoName, operator |-> ""]
LP == [kind |-> "(", name |-> NoName, operator |-> ""]
RP == [kind |-> ")", name |-> NoName, operator |-> ""]

---------------------------------------------------------------------------
(* FilterOption: the graph of one generated filter expression.             *)
(* option = [parts, logicals, groups, option_string]                       *)

NewPart(n) ==
    [id |-> <<"p", n>>, name |-> NoName, operator |-> None,
     left_id |-> NoId, right_id |-> NoId]

NewLogical(n) ==
    [id |-> <<"l", n>>, name |-> None, left_id |-> NoId, right_id |-> NoId,
     group_id |-> NoId]

NewGroup(n) ==
    [id |-> <<"g", n>>, logicals |-> <<>>, left_id |-> NoId, right_id |-> NoId]

EmptyOption == [parts |-> <<>>, logicals |-> <<>>, groups |-> <<>>, option_string |-> <<>>]

add_part(option) ==
    [option EXCEPT !.parts = Append(@, NewPart(Len(@) + 1))]

add_logical(option) ==
    [option EXCEPT !.logicals = Append(@, NewLogical(Len(@) + 1))]

add_group(option) ==
    [option EXCEPT !.groups = Append(@, NewGroup(Len(@) + 1))]

\* the position in list of the first dictionary with this id, 0 if there is none
IndexById(list, id) ==
    IF \E i \in 1..Len(list) : list[i].id = id
    THEN CHOOSE i \in 1..Len(list) :
            /\ list[i].id = id
            /\ \A j \in 1..(i - 1) : list[j].id # id
    ELSE 0

HasId(list, id) == IndexById(list, id) # 0

dict_by_id(list, id) == list[IndexById(list, id)]

reverse_logicals(option) == [option EXCEPT !.logicals = Reverse(@)]

IsRedundantGroup(group) ==
    ~(group.logicals # <<>> /\ (group.right_id # NoId \/ group.left_id # NoId))

delete_redundancies(option) ==
    LET redundant_groups_id ==
            {option.groups[i].id : i \in {j \in 1..Len(option.groups) :
                                            IsRedundantGroup(option.groups[j])}}
        Kept(group) == ~IsRedundantGroup(group)
    IN  [option EXCEPT
            !.groups = SelectSeq(@, Kept),
            !.logicals = [i \in 1..Len(@) |->
                IF @[i].group_id \in redundant_groups_id
                THEN [@[i] EXCEPT !.group_id = NoId]
                ELSE @[i]]]

---------------------------------------------------------------------------
(* ProprtiesSelector with RequiredProprties / NonRequiredProprties.        *)
(* The two pools share their lists with the selector, so a pool is named   *)
(* by the list it holds: "filterable", "required" or "empty".              *)

Pool(list, weight) == <<list, weight>>

_init_tuples(filterable_proprties, required_proprties) ==
    LET non_required_proprties == SeqToSet(filterable_proprties) \ SeqToSet(required_proprties)
    IN  IF non_required_proprties # {}
        THEN IF required_proprties # <<>>
             THEN <<Pool("filterable", 1), Pool("required", 99)>>
             ELSE <<Pool("filterable", 100), Pool("empty_required", 0)>>
        ELSE <<Pool("empty", 0), Pool("required", 100)>>

ProprtiesSelector(filterable_proprties, required_proprties) ==
    [filterable |-> filterable_proprties,
     required |-> required_proprties,
     has_remaining_proprties |-> required_proprties # <<>>,
     proprties |-> _init_tuples(filterable_proprties, required_proprties),
     times_called_has_remaining |-> 0]

\* has_remaining() that does not count its calls
HasRemainingUncounted(sel) ==
    IF sel.times_called_has_remaining >= Len(sel.required)
    THEN <<FALSE, sel>>
    ELSE <<sel.has_remaining_proprties, sel>>

\* has_remaining() returns <<result, the selector afterwards>>
has_remaining(sel) ==
    IF sel.times_called_has_remaining >= Len(sel.required)
    THEN <<FALSE, sel>>
    ELSE <<sel.has_remaining_proprties,
           [sel EXCEPT !.times_called_has_remaining = @ + 1]>>

has_filterable(sel) == sel.filterable # <<>>

_update_remaining_proprties(sel) ==
    IF sel.has_remaining_proprties /\ sel.required = <<>>
    THEN [sel EXCEPT !.has_remaining_proprties = FALSE,
                     !.proprties = <<Pool("filterable", 100)>>]
    ELSE sel

\* the list a pool holds
PoolList(sel, pool) ==
    CASE pool = "filterable" -> sel.filterable
      [] pool = "required" -> sel.required
      [] OTHER -> <<>>

\* get_random_proprty() whose non-required pool keeps a single-value property
GetRandomProprtyKeepsSingleValue(sel, r_group, r_index) ==
    LET proprties_group == weighted_random(sel.proprties, r_group)
        list == PoolList(sel, proprties_group)
        index == RandomIndex(r_index, Len(list)) + 1
    IN  IF proprties_group = None
        THEN [proprty |-> None, sel |-> sel, err |-> "AttributeError"]
        ELSE IF list = <<>>
        THEN [proprty |-> None, sel |-> sel, err |-> "IndexError"]
        ELSE IF proprties_group = "required"
        THEN [proprty |-> list[index],
              sel |-> _update_remaining_proprties(
                          [sel EXCEPT !.required = RemoveAt(@, index)]),
              err |-> ""]
        ELSE [proprty |-> list[index],
              sel |-> _update_remaining_proprties(sel),
              err |-> ""]

\* get_random_proprty() returns [proprty, sel, err]; r_group and r_index are the
\* draws of weighted_random and of the pool's get_proprty
get_random_proprty(sel, r_group, r_index) ==
    LET proprties_group == weighted_random(sel.proprties, r_group)
        list == PoolList(sel, proprties_group)
        index == RandomIndex(r_index, Len(list)) + 1
    IN  IF proprties_group = None
        THEN [proprty |-> None, sel |-> sel, err |-> "AttributeError"]
        ELSE IF list = <<>>
        THEN [proprty |-> None, sel |-> sel, err |-> "IndexError"]
        ELSE IF proprties_group = "required"
        THEN [proprty |-> list[index],
              sel |-> _update_remaining_proprties(
                          [sel EXCEPT !.required = RemoveAt(@, index)]),
              err |-> ""]
        ELSE [proprty |-> list[index],
              sel |-> _update_remaining_proprties(
                          IF list[index].filter_restriction = "single-value"
                          THEN [sel EXCEPT !.filterable = RemoveAt(@, index)]
                          ELSE sel),
              err |-> ""]


---------------------------------------------------------------------------
(* FilterQuery: what the constructor derives from the entity type.         *)

FilterableProprties(e) == e.proprties

IsRequired(e, proprty) ==
    proprty.required_in_filter \/ (e.draft # None /\ proprty.name = e.draft)

\* _init_required_proprties
RequiredProprtiesOf(e) ==
    LET Required(proprty) == IsRequired(e, proprty)
    IN  SelectSeq(e.proprties, Required)

\* the family a property joins in FilterFunctionsGroup._init_functions_group
FamilyOf(proprty) ==
    IF proprty.filter_restriction # "none" THEN None
    ELSE CASE proprty.typ = "Edm.String" -> "String"
           [] proprty.typ = "Edm.DateTime" -> "Date"
           [] proprty.typ = "Edm.Decimal" -> "Math"
           [] OTHER -> None

\* the properties a family's wrapper holds
FamilyProprties(e, family) ==
    LET Member(proprty) == FamilyOf(proprty) = family
    IN  SelectSeq(e.proprties, Member)

\* FilterFunctionsGroup.group built without restrictions: the families present
FunctionsGroup(e) ==
    {FamilyOf(e.proprties[i]) : i \in 1..Len(e.proprties)} \ {None}

---------------------------------------------------------------------------
(* FilterQuery.generate(): the state it works on and its helpers.          *)

\* _init_variables
InitVariables(e) ==
    [recursion_depth |-> 0,
     finalizing_groups |-> 0,
     right_part |-> FALSE,
     option |-> EmptyOption,
     groups_stack |-> <<>>,
     option_string |-> <<>>,
     proprties |-> ProprtiesSelector(FilterableProprties(e), RequiredProprtiesOf(e)),
     err |-> ""]

Raise(q, exception) == [q EXCEPT !.err = IF @ = "" THEN exception ELSE @]

LastIndex(list) == Len(list)

\* Stack.top(): the id of the group on top, NoId for None
StackTop(q) ==
    IF q.groups_stack = <<>> THEN NoId ELSE q.groups_stack[Len(q.groups_stack)]

\* _update_left_logical_references(last_logical)
_update_left_logical_references(q) ==
    LET l == LastIndex(q.option.logicals)
        p == LastIndex(q.option.parts)
        stacked_group == StackTop(q)
    IN  IF p = 0 THEN Raise(q, "IndexError")
        ELSE [q EXCEPT
                !.option.logicals[l].group_id =
                    IF stacked_group # NoId THEN stacked_group ELSE @,
                !.option.logicals[l].left_id = q.option.parts[p].id,
                !.option.parts[p].right_id = q.option.logicals[l].id]

\* _set_right_logical_references() that links the Part to the Logical and
\* forgets the Logical's right_id
SetRightWithoutLogicalSide(q) ==
    LET l == LastIndex(q.option.logicals)
        p == LastIndex(q.option.parts)
    IN  IF l = 0 \/ p = 0 THEN Raise(q, "IndexError")
        ELSE [q EXCEPT !.option.parts[p].left_id = q.option.logicals[l].id]

\* _set_right_logical_references() that adds the Logical to the Group's
\* 'logicals' and leaves the Logical without the group_id
SetRightWithoutGroupId(q) ==
    LET l == LastIndex(q.option.logicals)
        p == LastIndex(q.option.parts)
        last_group == StackTop(q)
        g == IndexById(q.option.groups, last_group)
    IN  IF l = 0 \/ p = 0 THEN Raise(q, "IndexError")
        ELSE LET linked == [q EXCEPT
                    !.option.logicals[l].right_id = q.option.parts[p].id,
                    !.option.parts[p].left_id = q.option.logicals[l].id]
             IN  IF last_group # NoId
                 THEN [linked EXCEPT
                        !.option.groups[g].logicals = Append(@, q.option.logicals[l].id)]
                 ELSE linked

\* _set_right_logical_references()
_set_right_logical_references(q) ==
    LET l == LastIndex(q.option.logicals)
        p == LastIndex(q.option.parts)
        last_group == StackTop(q)
        g == IndexById(q.option.groups, last_group)
    IN  IF l = 0 \/ p = 0 THEN Raise(q, "IndexError")
        ELSE LET linked == [q EXCEPT
                    !.option.logicals[l].right_id = q.option.parts[p].id,
                    !.option.parts[p].left_id = q.option.logicals[l].id]
             IN  IF last_group # NoId
                 THEN [linked EXCEPT
                        !.option.groups[g].logicals = Append(@, q.option.logicals[l].id),
                        !.option.logicals[l].group_id = last_group]
                 ELSE linked

\* _update_right_logical_references()
_update_right_logical_references(q) ==
    IF q.right_part
    THEN _set_right_logical_references([q EXCEPT !.right_part = FALSE])
    ELSE q

\* _update_proprty_part / _update_function_part: name and operator of the last part
\* (the operand is a literal of the property capability and is left out)
_update_part(q, name, operator) ==
    LET p == LastIndex(q.option.parts)
    IN  [q EXCEPT !.option.parts[p].name = name,
                  !.option.parts[p].operator = operator]

AppendLeaf(q, name, operator) ==
    [q EXCEPT !.option_string =
        Append(@, [kind |-> "leaf", name |-> name, operator |-> operator])]

\* _generate_sap_restricted(proprty, logical, operator)
_generate_sap_restricted(q, proprty, logical, operator) ==
    LET q1 == [q EXCEPT !.option_string = Append(@, ConnToken(logical)),
                        !.option = add_logical(@)]
        l == LastIndex(q1.option.logicals)
        q2 == [q1 EXCEPT !.option.logicals[l].name = logical]
        q3 == _update_left_logical_references(q2)
        q4 == [q3 EXCEPT !.option = add_part(@)]
        q5 == AppendLeaf(q4, PropName(proprty.name), operator)
    IN  _update_part(q5, PropName(proprty.name), operator)

\* _generate_next_interval_value / one round of the loop of _generate_multi_values
_generate_next_value(q, proprty, logical, operator) ==
    _set_right_logical_references(_generate_sap_restricted(q, proprty, logical, operator))

\* _generate_interval_values that gives every companion the operator 'le'
IntervalCompanionAlwaysLe(q, proprty, used_operator) ==
    IF used_operator # "eq"
    THEN _generate_next_value(q, proprty, "and", "le")
    ELSE q

\* _generate_interval_values(proprty, used_operator)
_generate_interval_values(q, proprty, used_operator) ==
    IF used_operator # "eq"
    THEN _generate_next_value(q, proprty, "and",
                              IF used_operator = "le" THEN "ge" ELSE "le")
    ELSE q

RECURSIVE RepeatMultiValue(_, _, _, _)
RepeatMultiValue(q, proprty, operator, times) ==
    IF times = 0 THEN q
    ELSE RepeatMultiValue(_generate_next_value(q, proprty, "or", operator),
                          proprty, operator, times - 1)

\* total_values without the + 1
TotalValuesFromZero(r) == RoundHalfEven(r * (MAX_MULTI_VALUES - 1), 100)

\* total_values = round(random.random() * (MAX_MULTI_VALUES - 1) + 1)
TotalValues(r) == RoundHalfEven(r * (MAX_MULTI_VALUES - 1) + 100, 100)

\* _generate_multi_values(proprty, operator)
_generate_multi_values(q, proprty, operator, r) ==
    RepeatMultiValue(q, proprty, operator, TotalValues(r))

\* proprty.generate_remaining_proprties(proprty, operator), as
\* _set_generators_for_restricted_proprties installs it
generate_remaining_proprties(q, proprty, operator, r) ==
    CASE proprty.filter_restriction = "interval" ->
            _generate_interval_values(q, proprty, operator)
      [] proprty.filter_restriction = "multi-value" ->
            _generate_multi_values(q, proprty, operator, r)
      [] OTHER -> q

\* the Parts one _generate_proprty call adds after its own
CompanionCount(proprty, operator, r) ==
    CASE proprty.filter_restriction = "interval" -> IF operator # "eq" THEN 1 ELSE 0
      [] proprty.filter_restriction = "multi-value" -> TotalValues(r)
      [] OTHER -> 0

\* _generate_proprty(): r_group, r_index choose the property, r_operator its
\* operator, r_values the number of multi-value companions
_generate_proprty(q, r_group, r_index, r_operator, r_values) ==
    LET got == get_random_proprty(q.proprties, r_group, r_index)
        proprty == got.proprty
        operator == weighted_random(Operators(proprty), r_operator)
        q1 == [q EXCEPT !.proprties = got.sel]
        q2 == AppendLeaf(q1, PropName(proprty.name), operator)
        q3 == _update_part(q2, PropName(proprty.name), operator)
        q4 == _update_right_logical_references(q3)
    IN  IF got.err # "" THEN Raise(q, got.err)
        ELSE IF operator = None THEN Raise(q1, "TypeError")
        ELSE generate_remaining_proprties(q4, proprty, operator, r_values)

\* the func_ methods of a family's class
FamilyFunctions(family) ==
    CASE family = "String" -> <<"concat", "endswith", "indexof", "length", "replace",
                                "startswith", "substring", "substringof", "tolower",
                                "toupper", "trim">>
      [] family = "Date" -> <<"day", "hour", "minute", "month", "second", "year">>
      [] family = "Math" -> <<"ceiling", "floor", "round">>
      [] OTHER -> <<>>

\* the operators of a function's return type: FunctionsBool, else FunctionsInt/String
FunctionOperators(func) ==
    IF func \in {"substringof", "endswith", "startswith"}
    THEN BOOLEAN_OPERATORS ELSE EXPRESSION_OPERATORS

\* _generate_function(): the family, the function and the property it is called
\* on are random.choice results, given here as the chosen values
_generate_function(q, family, func, proprty, r_operator) ==
    LET operator == weighted_random(FunctionOperators(func), r_operator)
        q1 == AppendLeaf(q, FuncName(func, proprty.name), operator)
        q2 == _update_part(q1, FuncName(func, proprty.name), operator)
    IN  IF func = "concat" THEN Raise(q, "AttributeError")
        ELSE IF operator = None THEN Raise(q, "TypeError")
        ELSE _update_right_logical_references(q2)

\* _update_group_references(last_group)
_update_group_references(q) ==
    LET l == LastIndex(q.option.logicals)
        g == LastIndex(q.option.groups)
        stacked_group == StackTop(q)
        s == IndexById(q.option.groups, stacked_group)
    IN  IF l = 0 THEN Raise(q, "IndexError")
        ELSE LET linked == [q EXCEPT
                    !.option.logicals[l].right_id = q.option.groups[g].id,
                    !.option.groups[g].left_id = q.option.logicals[l].id]
             IN  IF stacked_group # NoId
                 THEN [linked EXCEPT !.option.groups[s].logicals =
                                        Append(@, q.option.logicals[l].id)]
                 ELSE linked

\* _noterm_logical(): r chooses the connective
_noterm_logical(q, r) ==
    LET operator == weighted_random(LOGICAL_OPERATORS, r)
        q1 == [q EXCEPT !.option_string = Append(@, ConnToken(operator)),
                        !.option = add_logical(@)]
        l == LastIndex(q1.option.logicals)
        q2 == [q1 EXCEPT !.option.logicals[l].name = operator]
        n == q2.finalizing_groups
        depth == Len(q2.groups_stack)
        popped_group == IF n > depth THEN NoId ELSE q2.groups_stack[depth - n + 1]
        g == IndexById(q2.option.groups, popped_group)
        q3 == IF n > 0
              THEN IF popped_group = NoId
                   THEN Raise([q2 EXCEPT !.groups_stack = <<>>, !.finalizing_groups = 0],
                              "TypeError")
                   ELSE [q2 EXCEPT
                            !.groups_stack = SubSeq(@, 1, depth - n),
                            !.finalizing_groups = 0,
                            !.option.logicals[l].left_id = popped_group,
                            !.option.groups[g].right_id = q2.option.logicals[l].id]
              ELSE _update_left_logical_references(q2)
    IN  IF operator = None THEN Raise(q, "TypeError")
        ELSE [q3 EXCEPT !.right_part = TRUE]


---------------------------------------------------------------------------
(* The entity types the model generates filters for. *)

R1 == Prop("R1", TRUE, "none", "Edm.Boolean")
R2 == Prop("R2", TRUE, "none", "Edm.Boolean")
R3 == Prop("R3", TRUE, "none", "Edm.Boolean")
R4 == Prop("R4", TRUE, "none", "Edm.Boolean")
R5 == Prop("R5", TRUE, "none", "Edm.Boolean")
PlainB == Prop("B", FALSE, "none", "Edm.Boolean")
PlainD == Prop("D", FALSE, "none", "Edm.Decimal")
Interval == Prop("I", FALSE, "interval", "Edm.Int32")
Multi == Prop("M", FALSE, "multi-value", "Edm.Boolean")
Single == Prop("S", FALSE, "single-value", "Edm.Boolean")
RSingle == Prop("RS", TRUE, "single-value", "Edm.Boolean")

Entity(proprties, draft) == [proprties |-> proprties, draft |-> draft]

EntityConfigs ==
    { Entity(<<PlainB>>, None),
      Entity(<<PlainD>>, None),
      Entity(<<Single>>, None),
      Entity(<<Interval>>, None),
      Entity(<<Multi>>, None),
      Entity(<<PlainB, Single>>, None),
      Entity(<<PlainB>>, "B"),
      Entity(<<R1, PlainD>>, None),
      Entity(<<R1, Interval>>, None),
      Entity(<<RSingle>>, None),
      Entity(<<R1, R2>>, None),
      Entity(<<R1, R2, R3>>, None),
      Entity(<<R1, R2, RSingle>>, None),
      Entity(<<R1, R2, R3, R4, R5>>, None) }

---------------------------------------------------------------------------
(* The filter pipeline: generate(), then build(), then remove_adjacent().  *)

NotBuilt == [string |-> <<>>, err |-> "not built"]
NoData == [parts |-> <<>>, logicals |-> <<>>, groups |-> <<>>]
NoDel == [state |-> "none", value |-> NoData, logical |-> NoId, selected |-> NoId,
          popped |-> FALSE, err |-> "", rebuilt |-> NotBuilt]

Top == IF stack = <<>> THEN "" ELSE Head(stack)

Running(frame) == pc = "generating" /\ Top = frame

\* the Parts a pending grammar function adds at least
MinParts(q, frame) ==
    CASE frame \in {"child", "child_group"} ->
            IF has_filterable(q.proprties) THEN 2 ELSE 1
      [] frame = "rest" -> IF has_filterable(q.proprties) THEN 1 ELSE 0
      [] frame \in {"expression", "parent", "generate_child", "element"} -> 1
      [] OTHER -> 0

RECURSIVE PendingParts(_, _)
PendingParts(q, frames) ==
    IF frames = <<>> THEN 0
    ELSE MinParts(q, Head(frames)) + PendingParts(q, Tail(frames))

\* the bound of the model: the run can still end within MaxParts Parts
\* (MaxFunctionParts where _generate_element can choose a function)
PartsBound(e) == IF FunctionsGroup(e) # {} THEN MaxFunctionParts ELSE MaxParts

Fits(q, frames) == Len(q.option.parts) + PendingParts(q, frames) <= PartsBound(entity)

\* a grammar step leaves q as the generator's state and frames in place of the
\* running function; an exception ends generate()
Step(q, frames) ==
    /\ Fits(q, frames \o Tail(stack))
    /\ Len(frames \o Tail(stack)) <= MaxStack
    /\ fq' = q
    /\ IF q.err # ""
       THEN pc' = "raised" /\ stack' = <<>>
       ELSE pc' = pc /\ stack' = frames \o Tail(stack)
    /\ steps' = IF q = fq THEN steps + 1 ELSE 0
    /\ UNCHANGED <<others, entity, built, del>>

\* the variables of the units checked on their own, while they are not in use
UnitsIdle ==
    /\ accessible = None
    /\ sampled = None
    /\ capability = None
    /\ selector = None
    /\ earlier = None

InitFilter ==
    /\ pc = "idle"
    /\ entity \in EntityConfigs
    /\ fq = InitVariables(entity)
    /\ stack = <<>>
    /\ steps = 0
    /\ built = NotBuilt
    /\ del = NoDel
    /\ paging = None
    /\ qgroup = None
    /\ functions = None
    /\ UnitsIdle

\* generate(): _init_variables and _generate_string
Generate ==
    /\ pc = "idle"
    /\ \E r \in Draws :
        LET q == InitVariables(entity)
        IN  /\ pc' = "generating"
            /\ IF RequiredProprtiesOf(entity) = <<>> /\ r < SINGLE_VALUE_PROB
               THEN /\ fq' = [q EXCEPT !.option = add_part(@)]
                    /\ stack' = <<"proprty">>
               ELSE /\ fq' = q
                    /\ stack' = <<"expression">>
    /\ steps' = 0
    /\ UNCHANGED <<others, entity, built, del>>

\* _noterm_expression
NotermExpression ==
    /\ Running("expression")
    /\ \E r \in Draws :
        LET remaining == has_remaining(fq.proprties)
            q == [fq EXCEPT !.recursion_depth = @ + 1, !.proprties = remaining[2]]
        IN  IF (~remaining[1]) /\ (r < 50 \/ q.recursion_depth > RECURSION_LIMIT)
            THEN Step(q, <<"element">>)
            ELSE Step(q, <<"child">>)

\* _noterm_parent
NotermParent ==
    /\ Running("parent")
    /\ \E r \in Draws :
        LET remaining == has_remaining(fq.proprties)
            q == [fq EXCEPT !.proprties = remaining[2]]
        IN  IF (~remaining[1]) /\ (r < 50 \/ q.recursion_depth > RECURSION_LIMIT)
            THEN Step(q, <<"expression">>)
            ELSE Step(q, <<"generate_child">>)

\* a _generate_child that opens a Group without asking has_remaining()
GenerateChildUnasked ==
    /\ Running("generate_child")
    /\ \E r \in Draws :
        IF r < 50
        THEN Step(fq, <<"child">>)
        ELSE Step(fq, <<"child_group">>)

\* _generate_child
GenerateChild ==
    /\ Running("generate_child")
    /\ \E r \in Draws :
        LET remaining == has_remaining(fq.proprties)
        IN  IF r < 50
            THEN Step(fq, <<"child">>)
            ELSE IF ~remaining[1]
            THEN Step([fq EXCEPT !.proprties = remaining[2]], <<"child">>)
            ELSE Step([fq EXCEPT !.proprties = remaining[2]], <<"child_group">>)

\* _generate_child_group, up to its call of _noterm_child
_generate_child_group(q) ==
    LET q1 == [q EXCEPT !.option_string = Append(@, LP), !.option = add_group(@)]
        last_group == q1.option.groups[Len(q1.option.groups)]
        q2 == IF q1.right_part THEN _update_group_references(q1) ELSE q1
    IN  [q2 EXCEPT !.groups_stack = Append(@, last_group.id)]

\* _generate_child_group, after _noterm_child has returned
FinalizeGroup(q) ==
    [q EXCEPT !.finalizing_groups = @ + 1, !.option_string = Append(@, RP)]

GenerateChildGroup ==
    /\ Running("child_group")
    /\ Step(_generate_child_group(fq), <<"child", "close_group">>)

CloseGroup ==
    /\ Running("close_group")
    /\ Step(FinalizeGroup(fq), <<>>)

\* _noterm_child
NotermChild ==
    /\ Running("child")
    /\ Step(fq, <<"parent", "rest">>)

\* _generate_rest
GenerateRest ==
    /\ Running("rest")
    /\ IF has_filterable(fq.proprties)
       THEN \E r \in Draws : Step(_noterm_logical(fq, r), <<"parent">>)
       ELSE Step(fq, <<>>)

\* _generate_element
GenerateElement ==
    /\ Running("element")
    /\ \E r \in Draws :
        LET q == [fq EXCEPT !.option = add_part(@)]
        IN  IF r < FUNCTION_WEIGHT /\ FunctionsGroup(entity) # {}
            THEN Step(q, <<"function">>)
            ELSE Step(q, <<"proprty">>)

\* the draws of a random.random() call; a call whose result cannot matter (a
\* single pool to choose from, no multi-value property to repeat) draws 0
DrawsIf(matters) == IF matters THEN Draws ELSE {0}

HasMultiValue(e) ==
    \E i \in 1..Len(e.proprties) : e.proprties[i].filter_restriction = "multi-value"

\* _generate_proprty with the companions it appends
GenerateProprty ==
    /\ Running("proprty")
    /\ \E r_group \in DrawsIf(Len(fq.proprties.proprties) > 1) :
       \E r_index, r_operator \in Draws :
       \E r_values \in DrawsIf(HasMultiValue(entity)) :
            Step(_generate_proprty(fq, r_group, r_index, r_operator, r_values), <<>>)

\* _generate_function
GenerateFunction ==
    /\ Running("function")
    /\ \E family \in FunctionsGroup(entity) :
        \E f \in 1..Len(FamilyFunctions(family)) :
        \E p \in 1..Len(FamilyProprties(entity, family)) :
        \E r_operator \in Draws :
            Step(_generate_function(fq, family, FamilyFunctions(family)[f],
                                    FamilyProprties(entity, family)[p], r_operator), <<>>)

\* generate(), after _generate_string: reverse_logicals, delete_redundancies
Finish ==
    /\ pc = "generating"
    /\ stack = <<>>
    /\ pc' = "generated"
    /\ fq' = [fq EXCEPT !.option =
                [delete_redundancies(reverse_logicals(@))
                    EXCEPT !.option_string = fq.option_string]]
    /\ UNCHANGED <<others, entity, stack, steps, built, del>>

NextGenerate ==
    \/ Generate
    \/ NotermExpression
    \/ NotermParent
    \/ GenerateChild
    \/ GenerateChildGroup
    \/ CloseGroup
    \/ NotermChild
    \/ GenerateRest
    \/ GenerateElement
    \/ GenerateProprty
    \/ GenerateFunction
    \/ Finish

---------------------------------------------------------------------------
(* FilterOptionBuilder.  Every function returns [str, used, err]: the      *)
(* string it built, _used_logicals afterwards, and the exception it raised *)
(* ("" for none).  fuel stands for the interpreter's recursion limit.      *)

Built(str, used) == [str |-> str, used |-> used, err |-> ""]
BuildError(exception) == [str |-> <<>>, used |-> <<>>, err |-> exception]

build_filter_part(part) == <<LeafToken(part)>>

BuildFuel(option) ==
    2 * (Len(option.parts) + Len(option.logicals) + Len(option.groups)) + 2

RECURSIVE _build_by_id(_, _, _, _, _)
RECURSIVE _build_surroundings(_, _, _, _, _, _)
RECURSIVE _build_group(_, _, _, _)

\* _build_left(part) / _build_right(part): key is "left_id" or "right_id"
_build_side(option, node, key, used, fuel) ==
    LET id == IF key = "left_id" THEN node.left_id ELSE node.right_id
    IN  IF id = NoId THEN BuildError("KeyError")
        ELSE _build_by_id(option, id, key = "left_id", used, fuel)

_build_by_id(option, part_id, skip_left, used, fuel) ==
    IF fuel = 0 THEN BuildError("RecursionError")
    ELSE IF HasId(option.parts, part_id)
    THEN LET part == dict_by_id(option.parts, part_id)
         IN  _build_surroundings(option, skip_left, part, build_filter_part(part),
                                 used, fuel - 1)
    ELSE IF ~HasId(option.groups, part_id) THEN BuildError("TypeError")
    ELSE LET group == dict_by_id(option.groups, part_id)
             Surrounded(inner) ==
                 IF inner.err # "" THEN inner
                 ELSE _build_surroundings(option, skip_left, group, inner.str,
                                          inner.used, fuel - 1)
         IN  Surrounded(_build_group(option, group, used, fuel - 1))

_build_surroundings(option, skip_left, node, generated_string, used, fuel) ==
    LET key == IF skip_left THEN "left_id" ELSE "right_id"
        id == IF skip_left THEN node.left_id ELSE node.right_id
    IN  IF id = NoId THEN Built(generated_string, used)
        ELSE IF ~HasId(option.logicals, id) THEN BuildError("TypeError")
        ELSE LET logical == dict_by_id(option.logicals, id)
                 Joined(beyond) ==
                     IF beyond.err # "" THEN beyond
                     ELSE IF skip_left
                     THEN Built(beyond.str \o <<ConnToken(logical.name)>>
                                    \o generated_string, beyond.used)
                     ELSE Built(generated_string \o <<ConnToken(logical.name)>>
                                    \o beyond.str, beyond.used)
             IN  Joined(_build_side(option, logical, key, Append(used, logical.id), fuel))

\* the string of a logical with both of its sides
BuildBothSides(option, logical, used, fuel) ==
    LET Both(left, right) ==
            IF right.err # "" THEN right
            ELSE Built(left.str \o <<ConnToken(logical.name)>> \o right.str, right.used)
        Right(left) ==
            IF left.err # "" THEN left
            ELSE Both(left, _build_side(option, logical, "right_id", left.used, fuel))
    IN  Right(_build_side(option, logical, "left_id", Append(used, logical.id), fuel))

_build_group(option, group, used, fuel) ==
    IF fuel = 0 THEN BuildError("RecursionError")
    ELSE IF group.logicals = <<>> THEN BuildError("IndexError")
    ELSE IF ~HasId(option.logicals, group.logicals[1]) THEN BuildError("TypeError")
    ELSE LET logical == dict_by_id(option.logicals, group.logicals[1])
             Wrapped(both) ==
                 IF both.err # "" THEN both
                 ELSE Built(<<LP>> \o both.str \o <<RP>>, both.used)
         IN  Wrapped(BuildBothSides(option, logical, used, fuel - 1))

_build_first_group(option, group_id, fuel) ==
    IF ~HasId(option.groups, group_id) THEN BuildError("TypeError")
    ELSE LET group == dict_by_id(option.groups, group_id)
             RightOf(left) ==
                 IF left.err # "" THEN left
                 ELSE _build_surroundings(option, FALSE, group, left.str, left.used, fuel)
             LeftOf(inner) ==
                 IF inner.err # "" THEN inner
                 ELSE RightOf(_build_surroundings(option, TRUE, group, inner.str,
                                                  inner.used, fuel))
         IN  LeftOf(_build_group(option, group, <<>>, fuel))

_check_last_logical(option, sofar, fuel) ==
    LET logical == option.logicals[Len(option.logicals)]
        Outside(left) ==
            IF left.err # "" THEN left
            ELSE Built(left.str \o <<ConnToken(logical.name), LP>> \o sofar.str \o <<RP>>,
                       left.used)
    IN  IF sofar.err # "" THEN sofar
        ELSE IF logical.id \in SeqToSet(sofar.used) THEN sofar
        ELSE Outside(_build_side(option, logical, "left_id", sofar.used, fuel))

_build_all(option, first_logical, fuel) ==
    _check_last_logical(option,
        IF first_logical.group_id # NoId
        THEN _build_first_group(option, first_logical.group_id, fuel)
        ELSE BuildBothSides(option, first_logical, <<>>, fuel),
        fuel)

\* FilterOptionBuilder(option).build()
build(option) ==
    LET Returned(result) == [string |-> result.str, err |-> result.err]
    IN  Returned(IF Len(option.parts) = 1
                 THEN Built(build_filter_part(option.parts[1]), <<>>)
                 ELSE IF option.logicals = <<>> THEN BuildError("IndexError")
                 ELSE _build_all(option, option.logicals[1], BuildFuel(option)))

\* the string has balanced parentheses
RECURSIVE ParenDepth(_, _, _)
ParenDepth(string, i, depth) ==
    IF i > Len(string) THEN depth
    ELSE IF string[i] = LP THEN ParenDepth(string, i + 1, depth + 1)
    ELSE IF string[i] = RP
    THEN IF depth = 0 THEN -1 ELSE ParenDepth(string, i + 1, depth - 1)
    ELSE ParenDepth(string, i + 1, depth)

Balanced(string) == ParenDepth(string, 1, 0) = 0

\* build() on the option generate() returned
Build ==
    /\ pc = "generated"
    /\ pc' = "built"
    /\ built' = build(fq.option)
    /\ UNCHANGED <<others, entity, fq, stack, steps, del>>


---------------------------------------------------------------------------
(* FilterOptionDeleter.  option_value is [parts, logicals, groups]; the    *)
(* deleter is [value, logical, selected_id, remained_id, deleting_part,    *)
(* remaining, err], where remaining is the id of _remaining_part (the      *)
(* dictionary itself lives in value) and deleting_part is NoNode for None.  *)

NoNode == [id |-> NoId]

Get(node, key) == IF key = "left_id" THEN node.left_id ELSE node.right_id

Put(node, key, id) ==
    IF key = "left_id" THEN [node EXCEPT !.left_id = id] ELSE [node EXCEPT !.right_id = id]

\* list.remove(x): without the first element equal to x
RemoveFirst(list, x) ==
    IF \E i \in 1..Len(list) : list[i] = x
    THEN RemoveAt(list, CHOOSE i \in 1..Len(list) :
                            list[i] = x /\ \A j \in 1..(i - 1) : list[j] # x)
    ELSE list

RemoveById(list, id) ==
    IF HasId(list, id) THEN RemoveAt(list, IndexById(list, id)) ELSE list

\* dictionary[key] = id on the dictionary with this id in list
PutById(list, node_id, key, id) ==
    IF HasId(list, node_id)
    THEN [list EXCEPT ![IndexById(list, node_id)] = Put(@, key, id)]
    ELSE list

\* a Part or Group of the option value by its id
HasNode(value, id) == HasId(value.parts, id) \/ HasId(value.groups, id)

NodeById(value, id) ==
    IF HasId(value.parts, id) THEN dict_by_id(value.parts, id)
    ELSE dict_by_id(value.groups, id)

PutNode(value, node_id, key, id) ==
    IF HasId(value.parts, node_id)
    THEN [value EXCEPT !.parts = PutById(@, node_id, key, id)]
    ELSE [value EXCEPT !.groups = PutById(@, node_id, key, id)]

Fault(d, exception) == [d EXCEPT !.err = IF @ = "" THEN exception ELSE @]

\* remove_logical_from_group(option_value, group_id, logical_id)
remove_logical_from_group(d, group_id, logical_id) ==
    IF ~HasId(d.value.groups, group_id) THEN Fault(d, "TypeError")
    ELSE [d EXCEPT !.value.groups[IndexById(d.value.groups, group_id)].logicals =
                        RemoveFirst(@, logical_id)]

\* _remove_logical_in_group
_remove_logical_in_group(d) ==
    IF d.logical.group_id # NoId
    THEN remove_logical_from_group(d, d.logical.group_id, d.logical.id)
    ELSE d

\* _init_selection(selected_id)
_init_selection(d, selected_id) ==
    LET remained_id == IF selected_id = "right_id" THEN "left_id" ELSE "right_id"
        selected == Get(d.logical, selected_id)
        remained == Get(d.logical, remained_id)
    IN  IF selected = NoId \/ remained = NoId THEN Fault(d, "KeyError")
        ELSE [d EXCEPT
                !.selected_id = selected_id,
                !.remained_id = remained_id,
                !.deleting_part = IF HasId(d.value.parts, selected)
                                  THEN dict_by_id(d.value.parts, selected) ELSE NoNode,
                !.remaining = IF HasNode(d.value, remained) THEN remained ELSE NoId]

\* _manage_part_references
_manage_part_references(d) ==
    LET far == Get(d.deleting_part, d.selected_id)
        d1 == [d EXCEPT !.value = PutNode(@, d.remaining, d.selected_id, far)]
    IN  IF d.remaining = NoId THEN Fault(d, "TypeError")
        ELSE IF d1.value.logicals = <<>> THEN d1
        ELSE IF ~HasId(d1.value.logicals, far) THEN Fault(d1, "TypeError")
        ELSE [d1 EXCEPT !.value.logicals = PutById(@, far, d.remained_id, d.remaining)]

\* _update_group_references(group_border, logicals), for one of the two keys
UpdateGroupReference(d, group_border, key, other_key) ==
    LET beyond == Get(group_border, key)
    IN  IF beyond = NoId \/ d.err # "" THEN d
        ELSE IF ~HasId(d.value.logicals, beyond) \/ d.remaining = NoId
        THEN Fault(d, "TypeError")
        ELSE [d EXCEPT !.value =
                [PutNode(@, d.remaining, key, beyond)
                    EXCEPT !.logicals = PutById(@, beyond, other_key, d.remaining)]]

_update_group_references_of(d, group_border) ==
    UpdateGroupReference(
        UpdateGroupReference(d, group_border, d.selected_id, d.remained_id),
        group_border, d.remained_id, d.selected_id)

\* _manage_group_references
_manage_group_references(d) ==
    IF ~HasId(d.value.groups, d.logical.group_id) THEN Fault(d, "TypeError")
    ELSE LET group_border == dict_by_id(d.value.groups, d.logical.group_id)
         IN  IF group_border.logicals = <<>>
             THEN _update_group_references_of(
                    [d EXCEPT !.value.groups = RemoveById(@, group_border.id)],
                    group_border)
             ELSE d

\* _add_part_references
_add_part_references(d) ==
    LET d1 == IF Get(d.deleting_part, d.selected_id) # NoId
              THEN _manage_part_references(d)
              ELSE IF d.remaining = NoId THEN Fault(d, "AttributeError")
              ELSE IF Get(NodeById(d.value, d.remaining), d.selected_id) = NoId
              THEN Fault(d, "KeyError")
              ELSE [d EXCEPT !.value = PutNode(@, d.remaining, d.selected_id, NoId)]
    IN  IF d1.err # "" THEN d1
        ELSE IF d.logical.group_id # NoId THEN _manage_group_references(d1)
        ELSE d1

\* _remove_all(part) that does not descend into the Groups it meets
RemoveAllShallow(value, part) ==
    LET Member(logical) == logical.group_id # NoId /\ logical.group_id = part.id
        Outside(logical) == ~Member(logical)
        members == SelectSeq(value.logicals, Member)
        bordered == {members[i].left_id : i \in 1..Len(members)}
                        \cup {members[i].right_id : i \in 1..Len(members)}
        Kept(node) == node.id \notin bordered
    IN  [value EXCEPT !.logicals = SelectSeq(@, Outside),
                      !.parts = SelectSeq(@, Kept),
                      !.groups = SelectSeq(@, Kept)]

\* _remove_all(part): todo is what is left of the copy of the logicals the loop
\* runs over
RECURSIVE RemoveAllLoop(_, _, _, _)
RemoveAllLoop(value, part_id, todo, fuel) ==
    IF todo = <<>> \/ fuel = 0 THEN value
    ELSE LET logical == Head(todo)
         IN  IF logical.group_id # NoId /\ logical.group_id = part_id
             THEN LET v1 == [value EXCEPT
                                !.logicals = RemoveFirst(@, logical),
                                !.parts = RemoveById(RemoveById(@, logical.left_id),
                                                     logical.right_id)]
                      v2 == IF HasId(v1.groups, logical.left_id)
                            THEN RemoveAllLoop(
                                    [v1 EXCEPT !.groups = RemoveById(@, logical.left_id)],
                                    logical.left_id, v1.logicals, fuel - 1)
                            ELSE v1
                      v3 == IF HasId(v2.groups, logical.right_id)
                            THEN RemoveAllLoop(
                                    [v2 EXCEPT !.groups = RemoveById(@, logical.right_id)],
                                    logical.right_id, v2.logicals, fuel - 1)
                            ELSE v2
                  IN  RemoveAllLoop(v3, part_id, Tail(todo), fuel)
             ELSE RemoveAllLoop(value, part_id, Tail(todo), fuel)

_remove_all(value, part) ==
    RemoveAllLoop(value, part.id, value.logicals, BuildFuel(value))

\* the closing loop of remove_adjacent: groups left without logicals go
PruneEmptyGroups(value) ==
    LET NotEmpty(group) == group.logicals # <<>>
    IN  [value EXCEPT !.groups = SelectSeq(@, NotEmpty)]

NewDeleter(option_value, logical) ==
    [value |-> option_value, logical |-> logical, selected_id |-> None,
     remained_id |-> None, deleting_part |-> NoNode, remaining |-> NoId, err |-> ""]

\* FilterOptionDeleter(option_value, logical).remove_adjacent(selected_id)
remove_adjacent(option_value, logical, selected_id) ==
    LET d0 == NewDeleter(option_value, logical)
        d1 == _remove_logical_in_group(d0)
        d2 == IF d1.err # "" THEN d1 ELSE _init_selection(d1, selected_id)
        selected == Get(logical, selected_id)
        d3 == IF d2.err # "" THEN d2
              ELSE IF d2.deleting_part # NoNode
              THEN _add_part_references(
                     [d2 EXCEPT !.value.parts = RemoveFirst(@, d2.deleting_part)])
              ELSE IF ~HasId(d2.value.groups, selected) THEN Fault(d2, "ValueError")
              ELSE LET group == dict_by_id(d2.value.groups, selected)
                       d2a == _add_part_references(
                                [d2 EXCEPT !.deleting_part = group,
                                           !.value.groups = RemoveFirst(@, group)])
                   IN  IF d2a.err # "" THEN d2a
                       ELSE [d2a EXCEPT !.value = _remove_all(@, group)]
    IN  IF d3.err # "" THEN d3
        ELSE [d3 EXCEPT !.value = PruneEmptyGroups(@)]


\* the caller of the deleter: a Logical of the option and a side are chosen,
\* remove_adjacent runs on the option's data; popped tells whether the
\* caller took the Logical out of 'logicals' before handing it over
Delete ==
    /\ pc = "built"
    /\ built.err = ""
    /\ \E i \in 1..Len(fq.option.logicals) :
       \E selected_id \in {"left_id", "right_id"} :
       \E popped \in BOOLEAN :
            LET logical == fq.option.logicals[i]
                data == [parts |-> fq.option.parts,
                         logicals |-> IF popped THEN RemoveAt(fq.option.logicals, i)
                                      ELSE fq.option.logicals,
                         groups |-> fq.option.groups]
                d == remove_adjacent(data, logical, selected_id)
            IN  del' = [state |-> "deleted", value |-> d.value, logical |-> logical.id,
                        selected |-> Get(logical, selected_id), popped |-> popped,
                        err |-> d.err, rebuilt |-> NotBuilt]
    /\ pc' = "deleted"
    /\ UNCHANGED <<others, entity, fq, stack, steps, built>>

\* build() on the option the deleter has worked on
Rebuild ==
    /\ pc = "deleted"
    /\ del.err = ""
    /\ pc' = "rebuilt"
    /\ del' = [del EXCEPT !.state = "rebuilt", !.rebuilt = build(del.value)]
    /\ UNCHANGED <<others, entity, fq, stack, steps, built>>

\* generate() and build() for every entity type of the model
Init == InitFilter

Next ==
    \/ NextGenerate
    \/ Build

Spec == Init /\ [][Next]_vars

\* generate(), build() and the deleter for the entity types of DeleteConfigs
DeleteConfigs ==
    { Entity(<<PlainB>>, None),
      Entity(<<R1, PlainD>>, None),
      Entity(<<R1, R2, R3>>, None),
      Entity(<<R1, R2, R3, R4, R5>>, None) }

InitDelete == InitFilter /\ entity \in DeleteConfigs

NextDelete ==
    \/ NextGenerate
    \/ Build
    \/ Delete
    \/ Rebuild

SpecDelete == InitDelete /\ [][NextDelete]_vars



---------------------------------------------------------------------------
(* The graph of an option: which ids resolve. *)

Ids(list) == {list[i].id : i \in 1..Len(list)}

\* every id the option holds names a node of the kind it must name
Resolves(option) ==
    LET nodes == Ids(option.parts) \cup Ids(option.groups)
        logicals == Ids(option.logicals)
    IN  /\ \A i \in 1..Len(option.logicals) :
            /\ option.logicals[i].left_id \in nodes
            /\ option.logicals[i].right_id \in nodes
            /\ option.logicals[i].group_id \in Ids(option.groups) \cup {NoId}
        /\ \A i \in 1..Len(option.parts) :
            /\ option.parts[i].left_id \in logicals \cup {NoId}
            /\ option.parts[i].right_id \in logicals \cup {NoId}
        /\ \A i \in 1..Len(option.groups) :
            /\ option.groups[i].left_id \in logicals \cup {NoId}
            /\ option.groups[i].right_id \in logicals \cup {NoId}
            /\ SeqToSet(option.groups[i].logicals) \subseteq logicals

\* C1: build() on an option generate() returned meets no id that does not
\* resolve, every id of the option names a node of the right kind, and the
\* string build() returns has balanced parentheses
C1_BuilderSerialisesGenerated ==
    pc = "built" =>
        /\ built.err = ""
        /\ Resolves(fq.option)
        /\ Balanced(built.string)

\* a generated option with a group in it has been built
C1_Witness ==
    /\ pc = "built"
    /\ built.err = ""
    /\ fq.option.groups # <<>>
    /\ Len(fq.option.parts) >= 3



\* the option data without the Logical the deleter was given
WithoutLogical(value, logical_id) ==
    [value EXCEPT !.logicals = RemoveById(@, logical_id)]

\* C2: after remove_adjacent on a generated graph, for any Logical of it and
\* either side, no id dangles (the ids of Parts and Groups name remaining
\* Logicals, the ids of Logicals name remaining Parts or Groups, group ids
\* name remaining Groups) and the builder run again returns a balanced string
C2_DeleterLeavesNoDanglingId ==
    /\ pc = "deleted" => del.err = "" /\ Resolves(del.value)
    /\ pc = "rebuilt" => del.rebuilt.err = "" /\ Balanced(del.rebuilt.string)

\* the same with the Logical handed to the deleter taken out of 'logicals' by
\* the caller beforehand
C2_WhenCallerPopped ==
    del.popped =>
        /\ pc = "deleted" => del.err = "" /\ Resolves(del.value)
        /\ pc = "rebuilt" => del.rebuilt.err = "" /\ Balanced(del.rebuilt.string)

\* the Logical was left in 'logicals': the rest of the graph is sound
C2_ApartFromTheLogical ==
    (pc = "deleted" /\ ~del.popped) =>
        /\ del.err = ""
        /\ Resolves(WithoutLogical(del.value, del.logical))
        /\ build(WithoutLogical(del.value, del.logical)).err = ""
        /\ Balanced(build(WithoutLogical(del.value, del.logical)).string)


\* C3: generate() ends after a number of grammar steps that RECURSION_LIMIT and
\* the number of required properties bound: it never comes back to
\* _noterm_parent through _generate_child and _noterm_child with every
\* variable of the generator as it was, only the call stack longer
C3_GenerateTerminates ==
    ~(Running("parent") /\ steps >= 3)

\* C4: every option generate() returns has a Part named after each required
\* property of the entity set
C4_EveryRequiredPropertyPlaced ==
    pc = "generated" =>
        \A i \in 1..Len(RequiredProprtiesOf(entity)) :
            \E p \in 1..Len(fq.option.parts) :
                fq.option.parts[p].name = PropName(RequiredProprtiesOf(entity)[i].name)

\* the filter_restriction of the property a Part is named after
RestrictionOf(e, part) ==
    IF part.name.func # "" THEN "none"
    ELSE IF \E i \in 1..Len(e.proprties) : e.proprties[i].name = part.name.prop
    THEN (CHOOSE pr \in SeqToSet(e.proprties) : pr.name = part.name.prop).filter_restriction
    ELSE "none"

\* _generate_proprty has just filled in the last Part of fq (the leaf) without
\* raising, for a property with this filter_restriction
LeafStep(restriction) ==
    /\ Running("proprty")
    /\ fq'.err = ""
    /\ RestrictionOf(entity, fq'.option.parts[Len(fq.option.parts)]) = restriction

\* the Parts at leaf + 1 .. leaf + k of option are companions of the Part at
\* leaf: same property, each joined to the Part before it by a Logical of
\* this name
Companions(option, leaf, k, connective) ==
    /\ Len(option.parts) >= leaf + k
    /\ \A j \in (leaf + 1)..(leaf + k) :
        /\ option.parts[j].name = option.parts[leaf].name
        /\ HasId(option.logicals, option.parts[j].left_id)
        /\ LET logical == dict_by_id(option.logicals, option.parts[j].left_id)
           IN  /\ logical.name = connective
               /\ logical.left_id = option.parts[j - 1].id
               /\ logical.right_id = option.parts[j].id
               /\ option.parts[j - 1].right_id = logical.id

\* C5 as stated: every leaf on an interval property gets exactly one companion
\* with the complementary bound (ge for le, le for ge), joined by 'and'
C5_IntervalAlwaysPaired ==
    [][LeafStep("interval") =>
        LET leaf == Len(fq.option.parts)
            option == fq'.option
        IN  /\ Len(option.parts) = leaf + 1
            /\ Companions(option, leaf, 1, "and")
            /\ {option.parts[leaf].operator, option.parts[leaf + 1].operator}
                    = {"ge", "le"}]_vars

\* C5 amended: a leaf on an interval property whose operator is not 'eq' gets
\* exactly one companion on the same property joined by 'and', with operator
\* 'ge' if the leaf's is 'le' and 'le' otherwise; an 'eq' leaf gets none
C5_IntervalPairedUnlessEq ==
    [][LeafStep("interval") =>
        LET leaf == Len(fq.option.parts)
            option == fq'.option
            used_operator == option.parts[leaf].operator
        IN  IF used_operator = "eq"
            THEN Len(option.parts) = leaf
            ELSE /\ Len(option.parts) = leaf + 1
                 /\ Companions(option, leaf, 1, "and")
                 /\ option.parts[leaf + 1].operator =
                        IF used_operator = "le" THEN "ge" ELSE "le"]_vars

\* a 'ge' leaf on the interval property and its 'le' companion are the last
\* two Parts
C5_Witness ==
    /\ pc = "generating"
    /\ fq.recursion_depth = 0
    /\ Len(fq.option.parts) = 2
    /\ LET n == Len(fq.option.parts)
       IN  /\ fq.option.parts[n - 1].name = PropName("I")
           /\ fq.option.parts[n - 1].operator = "ge"
           /\ fq.option.parts[n].name = PropName("I")
           /\ fq.option.parts[n].operator = "le"
           /\ fq.option.parts[n].left_id = fq.option.parts[n - 1].right_id
           /\ fq.option.parts[n].left_id # NoId

\* C6: a leaf on a multi-value property is followed by k companions on the
\* same property with the leaf's operator, 1 <= k <= MAX_MULTI_VALUES, each
\* joined by a Logical named 'or'
C6_MultiValueCompanions ==
    [][LeafStep("multi-value") =>
        LET leaf == Len(fq.option.parts)
            option == fq'.option
            k == Len(option.parts) - leaf
        IN  /\ k >= 1
            /\ k <= MAX_MULTI_VALUES
            /\ Companions(option, leaf, k, "or")
            /\ \A j \in (leaf + 1)..(leaf + k) :
                option.parts[j].operator = option.parts[leaf].operator]_vars

\* a leaf on the multi-value property with MAX_MULTI_VALUES companions
C6_Witness ==
    /\ pc = "generating"
    /\ fq.recursion_depth = 0
    /\ Len(fq.option.parts) = MAX_MULTI_VALUES + 1
    /\ \A j \in 1..Len(fq.option.parts) :
        /\ fq.option.parts[j].name = PropName("M")
        /\ fq.option.parts[j].operator = fq.option.parts[1].operator
    /\ \A i \in 1..Len(fq.option.logicals) : fq.option.logicals[i].name = "or"
    /\ Len(fq.option.logicals) = MAX_MULTI_VALUES


---------------------------------------------------------------------------
(* TopQuery and SkipQuery.  Here random.random() is a draw in thousandths  *)
(* and the weights of _max_range_prob are thousandths (0.001 is 1).        *)

PagingDraws == {0, 1, 500, 999}

\* depending_data.get(SKIP) / .get(TOP) when the key is not there
Absent == -1

\* the filter pipeline does not run
FilterIdle ==
    /\ pc = "none"
    /\ entity = None
    /\ fq = None
    /\ stack = <<>>
    /\ steps = 0
    /\ built = NotBuilt
    /\ del = NoDel

\* dictionary[key] = value on a dict kept as the list of its items
DictPut(items, key, value) ==
    IF \E i \in 1..Len(items) : items[i][1] = key
    THEN [i \in 1..Len(items) |-> IF items[i][1] = key THEN <<key, value>> ELSE items[i]]
    ELSE Append(items, <<key, value>>)

\* TopQuery._set_max_range() with the total_entities the include restriction
\* or the $count probe gave (INT_MAX when the probe failed)
TopSetMaxRange(total_entities) ==
    LET updated == DictPut(<< <<INT_MAX, 1000>> >>, INT_MAX, 1)
    IN  IF total_entities > MaxTopRange
        THEN DictPut(updated, MaxTopRange, 999)
        ELSE DictPut(updated, total_entities, 999)

\* SkipQuery._set_max_range() with the total_entities of the include
\* restriction (INT_MAX without one)
SkipSetMaxRange(total_entities) ==
    LET updated == DictPut(<< <<INT_MAX, 1000>> >>, INT_MAX, 1)
    IN  IF total_entities = INT_MAX
        THEN DictPut(updated, total_entities, 1000)
        ELSE DictPut(updated, total_entities, 999)

\* generate() without the cut to INT_MAX - other_value
RangeValueUncut(max_range_prob, other_value, r_selected, r) ==
    RoundHalfEven(r * weighted_random(max_range_prob, r_selected), 1000)

\* the value TopQuery.generate / SkipQuery.generate computes: other_value is
\* what depending_data holds for the other option
RangeValue(max_range_prob, other_value, r_selected, r) ==
    LET selected_value == weighted_random(max_range_prob, r_selected)
        max_range == IF other_value # Absent /\ other_value # 0
                        /\ other_value + selected_value > INT_MAX
                     THEN INT_MAX - other_value
                     ELSE selected_value
    IN  RoundHalfEven(r * max_range, 1000)

\* the entity counts a count probe or an include restriction can give
TotalEntities == {0, 3, MaxTopRange, MaxTopRange + 5, INT_MAX}

\* what the $count request of TopQuery._get_total_entities() ends in: the
\* dispatcher raises DispatcherError, or the response text is an integer or is
\* not one (int() raises ValueError)
Responses ==
    {[kind |-> "DispatcherError", count |-> 0], [kind |-> "ValueError", count |-> 0]}
        \cup {[kind |-> "integer", count |-> n] : n \in TotalEntities}

\* the total a failed probe would give if it were taken for an empty set
GetTotalEntitiesZeroOnFailure(response) ==
    IF response.kind = "integer" THEN response.count ELSE 0

\* TopQuery._get_total_entities()
_get_total_entities(response) ==
    IF response.kind = "DispatcherError" THEN INT_MAX
    ELSE IF response.kind = "ValueError" THEN INT_MAX
    ELSE response.count

\* the first half of TopQuery._set_max_range(): max_values is the include
\* restriction's entry for the entity set (Absent without one), and only
\* without one is the service asked
TopTotalEntities(max_values, response) ==
    IF max_values # Absent THEN max_values ELSE _get_total_entities(response)

\* a TopQuery that asks the service although the include restriction gave
\* the count
RequestsWhateverInclude(max_values) == <<"$count">>

\* the requests self._dispatcher.get receives in TopQuery._set_max_range():
\* the $count of _get_total_entities(), and only without an include entry
Requests(max_values) ==
    IF max_values # Absent THEN <<>> ELSE <<"$count">>

\* TopQuery.__init__ and SkipQuery.__init__
NewPaging(max_values, response, skip_total) ==
    [top |-> [max_range_prob |-> TopSetMaxRange(TopTotalEntities(max_values, response)),
              depending_data |-> 0,
              probe |-> IF max_values # Absent THEN "none" ELSE response.kind,
              total_entities |-> TopTotalEntities(max_values, response)],
     skip |-> [max_range_prob |-> SkipSetMaxRange(skip_total), depending_data |-> 0],
     last |-> [option |-> "none", given |-> Absent, value |-> 0],
     requests |-> Requests(max_values)]

InitPaging ==
    /\ FilterIdle
    /\ \E max_values \in {Absent} \cup TotalEntities, response \in Responses,
          skip_total \in TotalEntities :
            paging = NewPaging(max_values, response, skip_total)
    /\ qgroup = None
    /\ functions = None
    /\ UnitsIdle

\* TopQuery.generate(depending_data): the caller hands over the value the
\* SkipQuery generated last, or no $skip entry
TopGenerate ==
    /\ \E r_selected, r \in PagingDraws :
       \E skip_value \in {Absent, paging.skip.depending_data} :
            LET top_value == RangeValue(paging.top.max_range_prob, skip_value, r_selected, r)
            IN  paging' = [paging EXCEPT
                            !.top.depending_data = top_value,
                            !.last = [option |-> "top", given |-> skip_value,
                                      value |-> top_value]]
    /\ UNCHANGED <<filterVars, qgroup, functions, units>>

\* SkipQuery.generate(depending_data)
SkipGenerate ==
    /\ \E r_selected, r \in PagingDraws :
       \E top_value \in {Absent, paging.top.depending_data} :
            LET skip_value == RangeValue(paging.skip.max_range_prob, top_value, r_selected, r)
            IN  paging' = [paging EXCEPT
                            !.skip.depending_data = skip_value,
                            !.last = [option |-> "skip", given |-> top_value,
                                      value |-> skip_value]]
    /\ UNCHANGED <<filterVars, qgroup, functions, units>>

NextPaging ==
    \/ TopGenerate
    \/ SkipGenerate

SpecPaging == InitPaging /\ [][NextPaging]_vars

\* C7: a $top value generated with a previously generated $skip value S in the
\* depending data is T >= 0 with S + T <= INT_MAX, and a $skip value generated
\* with a previously generated $top value T is S with S + T <= INT_MAX
C7_TopPlusSkipWithinIntMax ==
    (paging.last.option \in {"top", "skip"} /\ paging.last.given # Absent) =>
        /\ paging.last.value >= 0
        /\ paging.last.given + paging.last.value <= INT_MAX

\* $top was generated after a $skip value so large that the range had to be
\* cut to INT_MAX - S, and it took the whole of it
C7_Witness ==
    /\ paging.last.option = "top"
    /\ paging.last.given > INT_MAX - MaxTopRange
    /\ paging.last.given < INT_MAX
    /\ paging.last.given + paging.last.value = INT_MAX

\* C14: when the $top count probe fails (DispatcherError, or a response text
\* that is not an integer) the TopQuery is still constructed, its total entity
\* count is INT_MAX, and every $top value generated afterwards is an integer
\* in 0..INT_MAX
C14_FailedProbeCountsAsIntMax ==
    paging.top.probe \in {"DispatcherError", "ValueError"} =>
        /\ paging.top.total_entities = INT_MAX
        /\ paging.top.max_range_prob # << >>
        /\ paging.last.option = "top" => paging.last.value \in 0..INT_MAX
        /\ paging.top.depending_data \in 0..INT_MAX

\* the probe's response text was no integer and a $top value was generated
\* from the range the failed probe left, the source's 1000
C14_Witness ==
    /\ paging.top.probe = "ValueError"
    /\ paging.last.option = "top"
    /\ paging.last.given = Absent
    /\ paging.last.value > 0
    /\ paging.last.value <= MaxTopRange


---------------------------------------------------------------------------
(* QueryGroup: its construction from an entity set of the metadata model   *)
(* and the restrictions, and random_options().  An entity set is           *)
(* [proprties, nav_proprties, req_filter, addressable, topable, pageable,  *)
(* patched]; restrictions are [given, entities, proprties, nav_proprties,  *)
(* include, draft]: whether there are any (else the QueryGroup got None),  *)
(* the options whose exclude names the entity set under                    *)
(* GLOBAL_ENTITY, the property names each option's exclude lists, the     *)
(* navigation properties $expand excludes, the options whose include has   *)
(* an entry for the entity set, and the draft properties.                  *)

P1 == [name |-> "P1", filterable |-> TRUE, sortable |-> TRUE]
P2 == [name |-> "P2", filterable |-> TRUE, sortable |-> FALSE]
P3 == [name |-> "P3", filterable |-> FALSE, sortable |-> FALSE]

EntitySets ==
    [proprties : {<<P1, P2>>, <<P3>>},
     nav_proprties : {<<>>, <<"N1", "N2">>},
     req_filter : BOOLEAN,
     addressable : BOOLEAN,
     topable : BOOLEAN,
     pageable : BOOLEAN,
     patched : {FALSE}]

NoExclude == [o \in {"filter", "orderby"} |-> {}]

Restrictions ==
    { [given |-> TRUE, entities |-> {}, proprties |-> NoExclude, nav_proprties |-> {},
       include |-> {}, draft |-> <<>>],
      [given |-> TRUE, entities |-> {}, proprties |-> NoExclude, nav_proprties |-> {},
       include |-> {"top", "skip"}, draft |-> <<>>],
      [given |-> TRUE, entities |-> {"filter", "top"}, proprties |-> NoExclude, nav_proprties |-> {},
       include |-> {"skip"}, draft |-> <<>>],
      [given |-> TRUE, entities |-> {}, proprties |-> [NoExclude EXCEPT !["filter"] = {"P1", "P2"}],
       nav_proprties |-> {"N1"}, include |-> {"top"}, draft |-> <<"P2">>],
      [given |-> TRUE, entities |-> {"expand"},
       proprties |-> [NoExclude EXCEPT !["filter"] = {"P1"}, !["orderby"] = {"P1"}],
       nav_proprties |-> {"N1", "N2"}, include |-> {}, draft |-> <<>>],
      [given |-> TRUE, entities |-> {"filter"}, proprties |-> NoExclude, nav_proprties |-> {},
       include |-> {}, draft |-> <<"P2">>] }

\* no restrictions at all: self._restrictions is None
NoRestrictions ==
    [given |-> FALSE, entities |-> {}, proprties |-> NoExclude, nav_proprties |-> {},
     include |-> {}, draft |-> <<>>]

\* _get_restrictions(option_name).is_not_restricted
_is_not_restricted(restrictions, option_name) ==
    ~restrictions.given \/ option_name \notin restrictions.entities

\* _delete_restricted_proprties(exclude_restr, attribute, draft_proprties): the
\* deep copy it returns
_delete_restricted_proprties(entity_set, restr_proprty_list, attribute, draft_proprties) ==
    LET Has(proprty) == IF attribute = "filterable" THEN proprty.filterable
                        ELSE proprty.sortable
        Stays(proprty) ==
            ~((proprty.name \in restr_proprty_list \/ ~Has(proprty))
              /\ proprty.name \notin SeqToSet(draft_proprties))
    IN  [entity_set EXCEPT !.proprties = SelectSeq(@, Stays)]

\* _delete_restricted_nav_proprties(option_restrictions): the entity set itself
\* when nothing is excluded, else a deep copy without the excluded ones
_delete_restricted_nav_proprties(entity_set, restrictions) ==
    LET Stays(name) == name \notin restrictions.nav_proprties
    IN  IF restrictions.nav_proprties # {} \/ "expand" \in restrictions.entities
        THEN [entity_set EXCEPT !.nav_proprties = SelectSeq(@, Stays)]
        ELSE entity_set

\* a QueryGroup before _init_group
NewGroupOf(entity_set, restrictions) ==
    [given |-> entity_set, entity_set |-> entity_set, restrictions |-> restrictions,
     query_options |-> <<>>, query_options_list |-> <<>>, required_options |-> <<>>,
     phase |-> "new", selected |-> <<>>]

AddOption(group, option_name, required) ==
    [group EXCEPT
        !.query_options = Append(@, option_name),
        !.required_options = IF required THEN Append(@, option_name) ELSE @,
        !.query_options_list = IF required THEN @ ELSE Append(@, option_name)]

\* _init_filter_query
_init_filter_query(group) ==
    LET restrictions == group.restrictions
        exclude_restrictions == IF restrictions.given
                                THEN restrictions.proprties["filter"] ELSE {}
        draft_properties == IF restrictions.given THEN restrictions.draft ELSE <<>>
        needs_filter == IF restrictions.given THEN TRUE ELSE group.entity_set.req_filter
        entity_set == [_delete_restricted_proprties(group.entity_set, exclude_restrictions,
                                                    "filterable", draft_properties)
                        EXCEPT !.req_filter = needs_filter]
        written == [group EXCEPT !.entity_set.req_filter = needs_filter]
    IN  IF (_is_not_restricted(restrictions, "filter") /\ entity_set.proprties # <<>>)
           \/ draft_properties # <<>>
        THEN AddOption(written, "filter", entity_set.req_filter)
        ELSE written

\* _init_orderby_query
_init_orderby_query(group) ==
    LET restrictions == group.restrictions
        exclude_restrictions == IF restrictions.given
                                THEN restrictions.proprties["orderby"] ELSE {}
        entity_set == _delete_restricted_proprties(group.entity_set, exclude_restrictions,
                                                   "sortable", <<>>)
    IN  IF _is_not_restricted(restrictions, "orderby") /\ entity_set.proprties # <<>>
        THEN AddOption(group, "orderby", FALSE)
        ELSE group

\* _init_expand_query
_init_expand_query(group) ==
    IF _is_not_restricted(group.restrictions, "expand")
       /\ group.entity_set.nav_proprties # <<>>
    THEN AddOption(group, "expand", FALSE)
    ELSE group

\* _init_query_type(option_name, metadata_attr, query_object, dispatcher)
_init_query_type(group, option_name, is_queryable) ==
    IF is_queryable /\ _is_not_restricted(group.restrictions, option_name)
    THEN AddOption(group, option_name,
                   group.restrictions.given /\ option_name \in group.restrictions.include)
    ELSE group

\* _init_group
_init_group(group) ==
    LET filter == _init_filter_query(group)
        orderby == _init_orderby_query(filter)
        expand == _init_expand_query(orderby)
        top == _init_query_type(expand, "top", expand.entity_set.topable)
    IN  _init_query_type(top, "skip", top.entity_set.pageable)

\* _init_accessible_entity_path: NonAddressableEntity patches the properties
\* of the entity set it is given
_init_accessible_entity_path(group) ==
    IF group.entity_set.addressable THEN group
    ELSE [group EXCEPT !.entity_set.patched = TRUE]

InitGroup ==
    /\ FilterIdle
    /\ UnitsIdle
    /\ paging = None
    /\ functions = None
    /\ \E entity_set \in EntitySets, restrictions \in Restrictions \cup {NoRestrictions} :
        qgroup = NewGroupOf(entity_set, restrictions)

\* QueryGroup(entity_set, restrictions, dispatcher, principal_entities)
Construct ==
    /\ qgroup.phase = "new"
    /\ qgroup' = [_init_accessible_entity_path(_init_group(qgroup))
                    EXCEPT !.phase = "constructed"]
    /\ UNCHANGED <<filterVars, paging, functions, units>>

\* the sequences random.sample can take from list, in the order of list:
\* sample_length of its elements, none twice
RECURSIVE Samples(_, _)
Samples(list, sample_length) ==
    IF sample_length = 0 THEN {<<>>}
    ELSE IF Len(list) < sample_length THEN {}
    ELSE {<<Head(list)>> \o rest : rest \in Samples(Tail(list), sample_length - 1)}
         \cup Samples(Tail(list), sample_length)

\* the orders random.shuffle can leave list in
RECURSIVE Shuffles(_)
Shuffles(list) ==
    IF list = <<>> THEN {<<>>}
    ELSE UNION {{<<list[i]>> \o rest : rest \in Shuffles(RemoveAt(list, i))} :
                    i \in 1..Len(list)}

\* sample_length without the + 1
SampleLengthFromZero(list_length, r) ==
    IF list_length = 0 THEN 0
    ELSE RoundHalfEven(r * (list_length - 1), 100)

\* sample_length of random_options() for random.random() = r / 100
SampleLength(list_length, r) ==
    IF list_length = 0 THEN 0
    ELSE RoundHalfEven(r * (list_length - 1), 100) + 1

\* random_options()
RandomOptions ==
    /\ qgroup.phase \in {"constructed", "selected"}
    /\ \E r \in Draws :
       \E sample_options \in Samples(qgroup.query_options_list,
                                     SampleLength(Len(qgroup.query_options_list), r)) :
       \E selected_options \in Shuffles(sample_options \o qgroup.required_options) :
            qgroup' = [qgroup EXCEPT !.phase = "selected", !.selected = selected_options]
    /\ UNCHANGED <<filterVars, paging, functions, units>>

NextGroup ==
    \/ Construct
    \/ RandomOptions

SpecGroup == InitGroup /\ [][NextGroup]_vars

\* how often x is in list
Count(list, x) == Cardinality({i \in 1..Len(list) : list[i] = x})

\* C8: what random_options() returns holds each required option exactly once
\* and no option twice; with optional options it holds at least one and at
\* most all of them, without any it is exactly the required options
C8_RandomOptions ==
    qgroup.phase = "selected" =>
        LET required == SeqToSet(qgroup.required_options)
            optional == SeqToSet(qgroup.query_options_list)
            chosen == SeqToSet(qgroup.selected) \cap optional
        IN  /\ \A o \in required : Count(qgroup.selected, o) = 1
            /\ \A o \in SeqToSet(qgroup.selected) : Count(qgroup.selected, o) = 1
            /\ SeqToSet(qgroup.selected) \subseteq required \cup optional
            /\ optional # {} => Cardinality(chosen) >= 1 /\ chosen \subseteq optional
            /\ optional = {} => /\ SeqToSet(qgroup.selected) = required
                                /\ Len(qgroup.selected) = Len(qgroup.required_options)

\* a group with required options and several optional ones has returned its
\* required options with only some of the optional ones
C8_Witness ==
    /\ qgroup.phase = "selected"
    /\ Len(qgroup.required_options) >= 2
    /\ Len(qgroup.query_options_list) >= 2
    /\ Len(qgroup.selected) = Len(qgroup.required_options) + 1

\* C10: the construction of a QueryGroup leaves the entity set of the metadata
\* model as it was given: nothing is removed from it and no attribute of it
\* is written
C10_OriginalEntitySetUntouched ==
    qgroup.phase # "new" => qgroup.entity_set = qgroup.given

\* what does hold: no property and no navigation property is removed from the
\* entity set given
C10_NothingRemovedFromOriginal ==
    qgroup.phase # "new" =>
        /\ qgroup.entity_set.proprties = qgroup.given.proprties
        /\ qgroup.entity_set.nav_proprties = qgroup.given.nav_proprties


---------------------------------------------------------------------------
(* FilterFunctionsGroup.  classes holds the func_ methods each function    *)
(* class has at the moment; every entity set's group holds wrappers that   *)
(* are instances of these classes.                                         *)

Families == {"String", "Date", "Math"}

EntitySetNames == {"A", "B"}

\* the function names a restriction excludes under GLOBAL_FUNCTION
RestrictedFunctions == {{}, {"round"}, {"day", "round"}, {"ceiling", "floor", "round"}}

\* the families the properties of an entity set give rise to
FamilyChoices == {{"Math"}, {"Date"}, {"Date", "Math"}}

NoGroup == [built |-> FALSE, group |-> {}, restricted |-> {}]

NoFunction == [entity_set |-> None, family |-> None, func |-> None]

InitFunctions ==
    /\ FilterIdle
    /\ UnitsIdle
    /\ paging = None
    /\ qgroup = None
    /\ functions = [classes |-> [family \in Families |-> SeqToSet(FamilyFunctions(family))],
                    groups |-> [name \in EntitySetNames |-> NoGroup],
                    last |-> NoFunction]

\* _delete_restricted_functions(restricted_functions): the classes afterwards
_delete_restricted_functions(classes, group, restricted_functions) ==
    [family \in Families |->
        IF family \in group THEN classes[family] \ restricted_functions
        ELSE classes[family]]

\* FilterFunctionsGroup(filterable_proprties, restrictions) for an entity set
\* whose properties belong to these families
BuildFunctionsGroup ==
    /\ \E name \in EntitySetNames :
       \E families \in FamilyChoices :
       \E restricted_functions \in RestrictedFunctions :
            LET classes == IF restricted_functions # {}
                           THEN _delete_restricted_functions(functions.classes, families,
                                                             restricted_functions)
                           ELSE functions.classes
                group == IF restricted_functions # {}
                         THEN {family \in families : classes[family] # {}}
                         ELSE families
            IN  /\ ~functions.groups[name].built
                /\ functions' = [functions EXCEPT
                                    !.classes = classes,
                                    !.groups[name] = [built |-> TRUE, group |-> group,
                                                      restricted |-> restricted_functions]]
    /\ UNCHANGED <<filterVars, paging, qgroup, units>>

\* _generate_function() of the FilterQuery of an entity set, up to the function
\* it chooses: random.choice of a wrapper, then of a func_ method of its class
ChooseFunction ==
    /\ \E name \in EntitySetNames :
       \E family \in functions.groups[name].group :
            /\ functions.groups[name].built
            /\ IF functions.classes[family] = {}
               THEN functions' = [functions EXCEPT
                        !.last = [entity_set |-> name, family |-> family,
                                  func |-> "IndexError"]]
               ELSE \E func \in functions.classes[family] :
                        functions' = [functions EXCEPT
                            !.last = [entity_set |-> name, family |-> family,
                                      func |-> func]]
    /\ UNCHANGED <<filterVars, paging, qgroup, units>>

NextFunctions ==
    \/ BuildFunctionsGroup
    \/ ChooseFunction

SpecFunctions == InitFunctions /\ [][NextFunctions]_vars

\* C9: a function excluded while one entity set's FilterFunctionsGroup was
\* built is gone from that group only: the group of every entity set can
\* generate each function of its families that its own restrictions do not
\* exclude
C9_ExclusionStaysInItsGroup ==
    \A name \in EntitySetNames :
        functions.groups[name].built =>
            \A family \in functions.groups[name].group :
                SeqToSet(FamilyFunctions(family)) \ functions.groups[name].restricted
                    \subseteq functions.classes[family]


---------------------------------------------------------------------------
(* C11: when QueryGroup creates the $filter generator. *)

\* the entity set given has a property that is filterable
HasFilterable(entity_set) ==
    \E i \in 1..Len(entity_set.proprties) : entity_set.proprties[i].filterable

\* the filter restrictions exclude the entity set under GLOBAL_ENTITY
GloballyExcluded(group) ==
    group.restrictions.given /\ "filter" \in group.restrictions.entities

\* C11: no $filter generator for an entity set the filter restrictions exclude
\* globally, with or without draft properties, and none for an entity set with
\* neither a filterable property nor a draft property
C11_NoFilterWhenExcludedOrEmpty ==
    qgroup.phase # "new" =>
        /\ GloballyExcluded(qgroup) => "filter" \notin SeqToSet(qgroup.query_options)
        /\ (~HasFilterable(qgroup.given) /\ qgroup.restrictions.draft = <<>>)
               => "filter" \notin SeqToSet(qgroup.query_options)

\* what does hold: the same with the global exclusion taken only where no
\* draft property is configured
C11_NoFilterUnlessDraft ==
    qgroup.phase # "new" =>
        /\ (GloballyExcluded(qgroup) /\ qgroup.restrictions.draft = <<>>)
               => "filter" \notin SeqToSet(qgroup.query_options)
        /\ (~HasFilterable(qgroup.given) /\ qgroup.restrictions.draft = <<>>)
               => "filter" \notin SeqToSet(qgroup.query_options)

\* a globally excluded entity set with a draft property has been constructed
C11_Witness ==
    /\ qgroup.phase = "constructed"
    /\ GloballyExcluded(qgroup)
    /\ qgroup.restrictions.draft # <<>>


---------------------------------------------------------------------------
(* C12: a Group's 'logicals' against the group_id of the Logicals. *)

\* the ids of the Logicals of option whose group_id is group_id
LogicalsOf(option, group_id) ==
    {option.logicals[i].id : i \in {j \in 1..Len(option.logicals) :
                                      option.logicals[j].group_id = group_id}}

NoDuplicates(list) ==
    \A i, j \in 1..Len(list) : list[i] = list[j] => i = j

GroupMembership(option) ==
    /\ \A i \in 1..Len(option.groups) :
        /\ NoDuplicates(option.groups[i].logicals)
        /\ SeqToSet(option.groups[i].logicals) = LogicalsOf(option, option.groups[i].id)
    /\ \A i \in 1..Len(option.logicals) :
        option.logicals[i].group_id \in Ids(option.groups) \cup {NoId}

---------------------------------------------------------------------------
(* The property capability monkey.patch_proprties installs, and the path   *)
(* of an AccessibleEntity.  A literal that a RandomGenerator function      *)
(* returns is the token "v"; a generate that is 'lambda: None' returns     *)
(* None.                                                                   *)

\* the primitive types of OData V2
EdmTypes ==
    {"Edm.Binary", "Edm.Boolean", "Edm.Byte", "Edm.DateTime", "Edm.DateTimeOffset",
     "Edm.Decimal", "Edm.Double", "Edm.Guid", "Edm.Int16", "Edm.Int32", "Edm.Int64",
     "Edm.SByte", "Edm.Single", "Edm.String", "Edm.Time"}

\* patch_proprty_generator(proprty): what the installed proprty.generate() returns
patch_proprty_generator(typ) ==
    IF typ \in {"Edm.String", "Edm.DateTime", "Edm.Boolean", "Edm.Byte", "Edm.SByte",
                "Edm.Single", "Edm.Guid", "Edm.Decimal", "Edm.DateTimeOffset",
                "Edm.Time", "Edm.Binary"}
    THEN "v"
    ELSE IF typ \in {"Edm.Int16", "Edm.Int32", "Edm.Int64"} THEN "v"
    ELSE None

Key(name, typ) == [name |-> name, typ |-> typ]
Nav(name, role) == [name |-> name, to_role |-> role]

\* the non-addressable entity set: its key properties and the roles of its
\* association set ends
AccessEntitySets ==
    [name : {"E"},
     key_proprties : {<<>>, <<Key("Id", "Edm.Int32")>>,
                      <<Key("Id", "Edm.Int32"), Key("Name", "Edm.String")>>},
     ends : {{"RoleE"}, {"RoleE", "RoleE2"}}]

\* entity sets that get_principal_entities may have discovered: with one
\* navigation property to the entity set, with several, with none to it, and
\* without key properties
PrincipalSets ==
    { [name |-> "P", key_proprties |-> <<Key("PId", "Edm.Guid")>>,
       nav_proprties |-> <<Nav("Items", "RoleE")>>],
      [name |-> "Q", key_proprties |-> <<Key("QId", "Edm.Int64"), Key("QNo", "Edm.String")>>,
       nav_proprties |-> <<Nav("Other", "RoleX"), Nav("Parts", "RoleE"), Nav("More", "RoleE2")>>],
      [name |-> "U", key_proprties |-> <<Key("UId", "Edm.Int32")>>,
       nav_proprties |-> <<Nav("Other", "RoleX")>>],
      [name |-> "W", key_proprties |-> <<>>, nav_proprties |-> <<Nav("Items", "RoleE")>>] }

\* NullEntity('')
NullEntity == [name |-> "", key_proprties |-> <<>>, nav_proprties |-> <<>>]

\* generate_accessible_entity_key_values(containing_entity_set): the items of
\* the dictionary
generate_accessible_entity_key_values(containing_entity_set) ==
    [i \in 1..Len(containing_entity_set.key_proprties) |->
        <<containing_entity_set.key_proprties[i].name,
          patch_proprty_generator(containing_entity_set.key_proprties[i].typ)>>]

\* AccessibleEntity._init_entity_set_name(): the name of the last navigation
\* property of the principal whose to_role is the role of an end of the
\* entity set, None without one
RECURSIVE _init_entity_set_name(_, _, _)
_init_entity_set_name(entity_set, nav_proprties, found) ==
    IF nav_proprties = <<>> THEN found
    ELSE _init_entity_set_name(entity_set, Tail(nav_proprties),
            IF Head(nav_proprties).to_role \in entity_set.ends
            THEN Head(nav_proprties).name ELSE found)

\* AccessibleEntity(entity_set, key_pairs, principal_entity_set)
AccessibleEntity(entity_set, key_pairs, principal_entity_set) ==
    [entity_set |-> entity_set, key_pairs |-> key_pairs,
     principal_entity_set |-> principal_entity_set,
     entity_set_name |-> IF principal_entity_set.name # ""
                         THEN _init_entity_set_name(entity_set,
                                  principal_entity_set.nav_proprties, None)
                         ELSE None]

\* str + str of Python: TypeError when a side is None
Concat(left, right) ==
    IF left = <<"TypeError">> \/ right = <<"TypeError">> THEN <<"TypeError">>
    ELSE left \o right

Str(x) == IF x = None THEN <<"TypeError">> ELSE <<x>>

\* _generate_key_pairs(): name=value, for every key pair, then [:-1]
RECURSIVE KeyPairsString(_)
KeyPairsString(key_pairs) ==
    IF key_pairs = <<>> THEN <<>>
    ELSE Concat(Concat(Concat(Str(Head(key_pairs)[1]), <<"=">>),
                       Concat(Str(Head(key_pairs)[2]), <<",">>)),
                KeyPairsString(Tail(key_pairs)))

_generate_key_pairs(key_pairs) ==
    LET entity_path == KeyPairsString(key_pairs)
    IN  IF entity_path = <<"TypeError">> THEN entity_path
        ELSE SubSeq(entity_path, 1, Len(entity_path) - 1)

\* _build_key_values()
_build_key_values(key_pairs) ==
    Concat(<<"(">>, Concat(_generate_key_pairs(key_pairs), <<")">>))

\* AccessibleEntity.path: the string in tokens, <<"TypeError">> when building
\* it raises
AccessiblePath(e) ==
    IF e.key_pairs # <<>>
    THEN IF e.principal_entity_set.name # ""
         THEN Concat(Concat(Str(e.principal_entity_set.name), _build_key_values(e.key_pairs)),
                     Concat(<<"/">>, Str(e.entity_set_name)))
         ELSE Concat(Str(e.entity_set.name), _build_key_values(e.key_pairs))
    ELSE Str(e.entity_set.name)


\* the sequences of principal entities a NonAddressableEntity is given
PrincipalLists ==
    {<<>>} \cup {<<p>> : p \in PrincipalSets}
           \cup {<<p, q>> : p \in PrincipalSets, q \in PrincipalSets}

\* NonAddressableEntity(entity_set, principal_entities)
InitAccess ==
    /\ FilterIdle
    /\ paging = None
    /\ qgroup = None
    /\ functions = None
    /\ sampled = None
    /\ capability = None
    /\ selector = None
    /\ earlier = None
    /\ \E entity_set \in AccessEntitySets, principal_entities \in PrincipalLists :
        accessible = [entity_set |-> entity_set,
                      principal_entities |-> principal_entities,
                      state |-> "new",
                      entity |-> AccessibleEntity(entity_set, <<>>, NullEntity),
                      path |-> <<>>]

\* NonAddressableEntity.get_queryable_entity(): not_empty is the outcome of
\* random.random() > EMPTY_ENTITY_PROB, associated that of random.random() <
\* ASSOCIATED_ENTITY_PROB, choice the index random.choice takes
GetQueryableEntity ==
    /\ accessible.state \in {"new", "path"}
    /\ \E not_empty \in BOOLEAN, associated \in BOOLEAN,
          choice \in 1..(IF accessible.principal_entities = <<>> THEN 1
                         ELSE Len(accessible.principal_entities)) :
        LET by_principal == accessible.principal_entities # <<>> /\ associated
            containing_entity_set ==
                IF by_principal THEN accessible.principal_entities[choice]
                ELSE accessible.entity_set
            principal_entity_set ==
                IF not_empty /\ by_principal THEN accessible.principal_entities[choice]
                ELSE NullEntity
            key_pairs ==
                IF not_empty
                THEN generate_accessible_entity_key_values(containing_entity_set)
                ELSE <<>>
        IN  accessible' = [accessible EXCEPT
                !.state = "produced",
                !.entity = AccessibleEntity(accessible.entity_set, key_pairs,
                                            principal_entity_set),
                !.path = <<>>]
    /\ UNCHANGED <<filterVars, paging, qgroup, functions, sampled, capability, selector, earlier>>

\* accessible_entity.path
Path ==
    /\ accessible.state = "produced"
    /\ accessible' = [accessible EXCEPT
            !.state = "path",
            !.path = AccessiblePath(accessible.entity)]
    /\ UNCHANGED <<filterVars, paging, qgroup, functions, sampled, capability, selector, earlier>>

NextAccess ==
    \/ GetQueryableEntity
    \/ Path

SpecAccess == InitAccess /\ [][NextAccess]_vars

\* name=v of every key property, a comma between two
RECURSIVE KeyList(_)
KeyList(key_proprties) ==
    IF key_proprties = <<>> THEN <<>>
    ELSE <<Head(key_proprties).name, "=", "v">>
            \o (IF Tail(key_proprties) = <<>> THEN <<>> ELSE <<",">>)
            \o KeyList(Tail(key_proprties))

\* the navigation properties of principal that lead to entity_set
NavigationsTo(principal, entity_set) ==
    {principal.nav_proprties[i].name : i \in {j \in 1..Len(principal.nav_proprties) :
        principal.nav_proprties[j].to_role \in entity_set.ends}}

\* C13: the path of every AccessibleEntity of a non-addressable entity set is
\* built without failing and is the bare entity set name, or
\* EntitySet(key=value,...) over the entity set's own keys with no principal,
\* or Principal(key=value,...)/NavigationName for a discovered principal, its
\* keys and a navigation property of it that leads to the entity set
C13_PathHasOneOfThreeForms ==
    accessible.state = "path" =>
        LET e == accessible.entity
            entity_set == accessible.entity_set
        IN  /\ accessible.path # <<"TypeError">>
            /\ \/ e.key_pairs = <<>> /\ accessible.path = <<entity_set.name>>
               \/ /\ e.principal_entity_set = NullEntity
                  /\ accessible.path =
                        <<entity_set.name, "(">> \o KeyList(entity_set.key_proprties) \o <<")">>
               \/ \E p \in SeqToSet(accessible.principal_entities) :
                    \E n \in NavigationsTo(p, entity_set) :
                        /\ e.principal_entity_set = p
                        /\ accessible.path =
                              <<p.name, "(">> \o KeyList(p.key_proprties) \o <<")", "/", n>>

\* what does hold: the same for principals that have a navigation property
\* to the entity set
C13_PathWhenNavigationExists ==
    (accessible.state = "path"
        /\ (accessible.entity.principal_entity_set.name # ""
                => NavigationsTo(accessible.entity.principal_entity_set,
                                 accessible.entity_set) # {}))
    =>  LET e == accessible.entity
            entity_set == accessible.entity_set
        IN  /\ accessible.path # <<"TypeError">>
            /\ \/ e.key_pairs = <<>> /\ accessible.path = <<entity_set.name>>
               \/ /\ e.principal_entity_set = NullEntity
                  /\ accessible.path =
                        <<entity_set.name, "(">> \o KeyList(entity_set.key_proprties) \o <<")">>
               \/ \E p \in SeqToSet(accessible.principal_entities) :
                    \E n \in NavigationsTo(p, entity_set) :
                        /\ e.principal_entity_set = p
                        /\ accessible.path =
                              <<p.name, "(">> \o KeyList(p.key_proprties) \o <<")", "/", n>>

\* a path through a principal has been built
C13_Witness ==
    /\ accessible.state = "path"
    /\ accessible.entity.principal_entity_set.name # ""
    /\ accessible.entity.key_pairs # <<>>


---------------------------------------------------------------------------
(* weighted_random(items) on its own: sampled is [given: the items the     *)
(* caller built, items: the same list as the call left it, called,         *)
(* random_number, result].  Weights and draws are hundredths.              *)

MaxItems == 3

SampleValues == {"a", "b", "c"}

\* the weights of the callers: probabilities, among them 0 and 1
SampleWeights == {0, 30, 50, 100}

\* random.random() in hundredths, on both sides of the sums of the weights
SampleDraws == {0, 29, 30, 50, 79, 80, 99}

ItemLists ==
    UNION {[1..n -> SampleValues \X SampleWeights] : n \in 0..MaxItems}

InitSample ==
    /\ FilterIdle
    /\ paging = None
    /\ qgroup = None
    /\ functions = None
    /\ accessible = None
    /\ capability = None
    /\ selector = None
    /\ earlier = None
    /\ \E items \in ItemLists :
        sampled = [given |-> items, items |-> items, called |-> FALSE,
                   random_number |-> 0, result |-> None]

\* one call weighted_random(items): the function reads items and assigns to
\* its local random_number only
WeightedRandom ==
    /\ \E r \in SampleDraws :
        sampled' = [sampled EXCEPT
                        !.called = TRUE,
                        !.random_number = r,
                        !.result = weighted_random(sampled.items, r)]
    /\ UNCHANGED <<filterVars, paging, qgroup, functions, accessible, capability, selector, earlier>>

NextSample == WeightedRandom

SpecSample == InitSample /\ [][NextSample]_vars

\* the sum of the weights at the first n positions
RECURSIVE WeightSum(_, _)
WeightSum(items, n) ==
    IF n = 0 THEN 0 ELSE WeightSum(items, n - 1) + items[n][2]

\* the positions whose cumulative weight the draw is below
Hits(items, r) == {i \in 1..Len(items) : r < WeightSum(items, i)}

\* C15: weighted_random(items) with the draw r returns the value at the
\* smallest position i with r below the sum of the weights at positions up to
\* i, returns None exactly when r is at least the sum of all weights, and
\* leaves items as they were
C15_WeightedRandomContract ==
    sampled.called =>
        LET items == sampled.given
            r == sampled.random_number
            hits == Hits(items, r)
        IN  /\ hits # {} =>
                \E i \in hits : /\ \A j \in hits : i <= j
                                /\ sampled.result = items[i][1]
            /\ (sampled.result = None) <=> (r >= WeightSum(items, Len(items)))
            /\ sampled.items = sampled.given

\* the draw passed two positions (one of weight 0) and hit the third
C15_Witness ==
    /\ sampled.called
    /\ Len(sampled.given) = 3
    /\ sampled.given[2][2] = 0
    /\ sampled.random_number >= sampled.given[1][2]
    /\ sampled.given[1][2] > 0
    /\ sampled.result = sampled.given[3][1]
    /\ sampled.result \notin {sampled.given[1][1], sampled.given[2][1]}


---------------------------------------------------------------------------
(* monkey.patch_proprties on one property and the leaf comparison          *)
(* FilterQuery._generate_proprty builds from it: capability is [name, typ, *)
(* patched, generate: what the installed generate() returns, state, leaf:  *)
(* the text appended to the option string].                                *)

ProprtyNames == {"Price", "Id"}

InitCapability ==
    /\ FilterIdle
    /\ paging = None
    /\ qgroup = None
    /\ functions = None
    /\ accessible = None
    /\ sampled = None
    /\ selector = None
    /\ earlier = None
    /\ \E name \in ProprtyNames, typ \in EdmTypes :
        capability = [name |-> name, typ |-> typ, patched |-> FALSE,
                      generate |-> "unpatched", operators |-> <<>>,
                      state |-> "new", leaf |-> <<>>]

\* monkey.patch_proprties for the property
PatchProprties ==
    /\ capability.state = "new"
    /\ capability' = [capability EXCEPT
                        !.patched = TRUE,
                        !.generate = patch_proprty_generator(capability.typ),
                        !.operators = Operators(capability),
                        !.state = "patched"]
    /\ UNCHANGED <<filterVars, paging, qgroup, functions, accessible, sampled, selector, earlier>>

\* the first four statements of FilterQuery._generate_proprty for the
\* property: proprty.name + ' ' + operator + ' ' + operand raises TypeError
\* when operand is None
GenerateProprtyLeaf ==
    /\ capability.state \in {"patched", "leaf"}
    /\ \E r \in Draws :
        LET operator == weighted_random(capability.operators, r)
            operand == capability.generate
        IN  IF operand = None
            THEN capability' = [capability EXCEPT !.state = "TypeError"]
            ELSE capability' = [capability EXCEPT
                                    !.state = "leaf",
                                    !.leaf = <<capability.name, " ", operator, " ", operand>>]
    /\ UNCHANGED <<filterVars, paging, qgroup, functions, accessible, sampled, selector, earlier>>

NextCapability ==
    \/ PatchProprties
    \/ GenerateProprtyLeaf

SpecCapability == InitCapability /\ [][NextCapability]_vars

\* C16: once patch_proprties has run, the generate() installed on a property
\* of any primitive type returns an operand, never None, and building the
\* leaf comparison 'name operator operand' over the property does not fail
C16_OperandNeverNone ==
    capability.patched =>
        /\ capability.generate # None
        /\ capability.state # "TypeError"

\* what holds: for the types patch_proprty_generator names, the leaf is built
C16_OperandOfNamedTypes ==
    (capability.patched /\ capability.typ # "Edm.Double") =>
        /\ capability.generate # None
        /\ capability.state # "TypeError"
        /\ capability.state = "leaf" => Len(capability.leaf) = 5

\* a patched Edm.Double property was chosen for a leaf and the concatenation
\* raised
C16_Witness ==
    /\ capability.patched
    /\ capability.typ = "Edm.Double"
    /\ capability.state = "TypeError"


\* the Logical the deleter was given, as the generated option holds it
DeletedLogical == dict_by_id(fq.option.logicals, del.logical)

\* the key of the side that was selected, and of the side that remained
SelectedSide == IF DeletedLogical.left_id = del.selected THEN "left_id" ELSE "right_id"
RemainedSide == IF SelectedSide = "left_id" THEN "right_id" ELSE "left_id"

\* the node on the selected side is gone, the node on the other side is kept,
\* and the Logical beyond the removed node now borders the kept node
SplicedAround(before, after) ==
    LET kept == Get(DeletedLogical, RemainedSide)
        far == Get(NodeById(before, del.selected), SelectedSide)
    IN  /\ del.selected \notin Ids(after.parts) \cup Ids(after.groups)
        /\ kept \in Ids(after.parts) \cup Ids(after.groups)
        /\ (far # NoId /\ HasId(after.logicals, far)) =>
                Get(dict_by_id(after.logicals, far), RemainedSide) = kept

\* C17: remove_adjacent, given a Logical L and a side, removes L and the Part
\* or Group on that side from the graph, keeps the node on the other side, and
\* makes the Logical that bordered the removed node on its far side reference
\* the kept node
C17_RemoveAdjacentRemovesBoth ==
    (pc = "deleted" /\ del.err = "") =>
        /\ del.logical \notin Ids(del.value.logicals)
        /\ SplicedAround(fq.option, del.value)

\* what holds: everything but the removal of L itself, which is left to the
\* caller
C17_RemovesTheSelectedSide ==
    (pc = "deleted" /\ del.err = "") => SplicedAround(fq.option, del.value)

\* remove_adjacent ran on a graph that still held L, removed a Part that had a
\* Logical on its far side, and L is still among the logicals
C17_Witness ==
    /\ pc = "deleted"
    /\ del.err = ""
    /\ ~del.popped
    /\ HasId(fq.option.parts, del.selected)
    /\ Get(NodeById(fq.option, del.selected), SelectedSide) # NoId
    /\ del.logical \in Ids(del.value.logicals)


---------------------------------------------------------------------------
(* One ProprtiesSelector and its callers: selector is [sel, n: the number  *)
(* of required properties it was created with, calls and trues: how often  *)
(* has_remaining() was called and returned True, last: what it returned    *)
(* last, refused: it has returned False, lapsed: it has returned True      *)
(* after a False, drawn: the names get_random_proprty() returned].         *)

MaxSelectorCalls == 7

InitSelector ==
    /\ FilterIdle
    /\ paging = None
    /\ qgroup = None
    /\ functions = None
    /\ accessible = None
    /\ sampled = None
    /\ capability = None
    /\ earlier = None
    /\ \E e \in EntityConfigs :
        selector = [sel |-> ProprtiesSelector(FilterableProprties(e), RequiredProprtiesOf(e)),
                    n |-> Len(RequiredProprtiesOf(e)),
                    calls |-> 0, trues |-> 0, last |-> "none",
                    refused |-> FALSE, lapsed |-> FALSE, drawn |-> 0]

\* a call of has_remaining()
HasRemaining ==
    /\ selector.calls < MaxSelectorCalls
    /\ LET Returned(result) ==
            selector' = [selector EXCEPT
                            !.sel = result[2],
                            !.calls = @ + 1,
                            !.trues = IF result[1] THEN @ + 1 ELSE @,
                            !.last = IF result[1] THEN "True" ELSE "False",
                            !.refused = @ \/ ~result[1],
                            !.lapsed = @ \/ (selector.refused /\ result[1])]
       IN  Returned(has_remaining(selector.sel))
    /\ UNCHANGED <<filterVars, paging, qgroup, functions, accessible, sampled, capability, earlier>>

\* a call of get_random_proprty() that returns a property
GetRandomProprty ==
    /\ selector.drawn < MaxSelectorCalls
    /\ \E r_group, r_index \in Draws :
        LET Returned(result) ==
                /\ result.err = ""
                /\ selector' = [selector EXCEPT !.sel = result.sel, !.drawn = @ + 1]
        IN  Returned(get_random_proprty(selector.sel, r_group, r_index))
    /\ UNCHANGED <<filterVars, paging, qgroup, functions, accessible, sampled, capability, earlier>>

NextSelector ==
    \/ HasRemaining
    \/ GetRandomProprty

SpecSelector == InitSelector /\ [][NextSelector]_vars

\* C18: however the calls of has_remaining() and get_random_proprty() on one
\* ProprtiesSelector created with N required properties interleave,
\* has_remaining() returns True at most N times, and after it has returned
\* False it never returns True again
C18_HasRemainingBudget ==
    /\ selector.trues <= selector.n
    /\ ~selector.lapsed

\* has_remaining() spent its whole budget of three and returned False on at
\* least two further calls, with a property drawn in between the calls
C18_Witness ==
    /\ selector.n = 3
    /\ selector.trues = 3
    /\ selector.calls >= 5
    /\ selector.drawn >= 1
    /\ selector.last = "False"


\* the positions of the Parts of option named after the property
PartsNamed(option, name) ==
    {p \in 1..Len(option.parts) : option.parts[p].name = PropName(name)}

\* C19: in every option generate() returns each required property is the name
\* of exactly one Part
C19_RequiredNamesExactlyOnePart ==
    pc = "generated" =>
        \A i \in 1..Len(RequiredProprtiesOf(entity)) :
            Cardinality(PartsNamed(fq.option, RequiredProprtiesOf(entity)[i].name)) = 1

\* generate() returned an option in which every required property is placed
\* and one of them names two Parts
C19_Witness ==
    /\ pc = "generated"
    /\ fq.err = ""
    /\ \A i \in 1..Len(RequiredProprtiesOf(entity)) :
        PartsNamed(fq.option, RequiredProprtiesOf(entity)[i].name) # {}
    /\ \E i \in 1..Len(RequiredProprtiesOf(entity)) :
        /\ RequiredProprtiesOf(entity)[i].required_in_filter
        /\ Cardinality(PartsNamed(fq.option, RequiredProprtiesOf(entity)[i].name)) >= 2


\* the properties of the entity type that are not required and carry
\* filter_restriction = single-value
SingleValueProprties(e) ==
    {pr \in SeqToSet(e.proprties) :
        ~IsRequired(e, pr) /\ pr.filter_restriction = "single-value"}

\* C20: at every point of generate(), and in the option it returns, a
\* non-required property with filter_restriction = single-value is the name
\* of at most one Part
C20_SingleValueNamesAtMostOnePart ==
    \A pr \in SingleValueProprties(entity) :
        Cardinality(PartsNamed(fq.option, pr.name)) <= 1

\* generate() returned an option of three Parts or more in which the
\* single-value property names the first Part and no other
C20_Witness ==
    /\ pc = "generated"
    /\ fq.err = ""
    /\ Len(fq.option.parts) >= 3
    /\ \E pr \in SingleValueProprties(entity) : PartsNamed(fq.option, pr.name) = {1}


---------------------------------------------------------------------------
(* generate() runs that end with _generate_string returned and the closing *)
(* steps of generate() still to come.  The runs open a Group before the    *)
(* first leaf, put `inside` leaves into it and go on after the closing     *)
(* parenthesis while _generate_rest finds a filterable property:           *)
(* on AllSingleValue every leaf is drawn from the 1% pool, which deletes   *)
(* it from the filterable list, so the fourth leaf is the last and the     *)
(* Group that holds all four gets no connector.                            *)

RSingle2 == Prop("RS2", TRUE, "single-value", "Edm.Boolean")
RSingle3 == Prop("RS3", TRUE, "single-value", "Edm.Boolean")

AllSingleValue == Entity(<<RSingle, RSingle2, RSingle3, Single>>, None)
ThreeRequired == Entity(<<R1, R2, R3>>, None)

\* the three has_remaining() calls that lead _noterm_expression, _noterm_parent
\* and _generate_child to _generate_child_group
BeforeGroup(e) ==
    LET Called(q) == [q EXCEPT !.proprties = has_remaining(@)[2]]
    IN  Called(Called(Called([InitVariables(e) EXCEPT !.recursion_depth = 1])))

\* _noterm_expression and _generate_element down to the leaf
RunLeaf(q, r_group, r_index, r_operator) ==
    _generate_proprty([q EXCEPT !.recursion_depth = @ + 1, !.option = add_part(@)],
                      r_group, r_index, r_operator, 0)

\* the run from leaf i on: indexes are the draws of the pools' get_proprty
RECURSIVE RunFrom(_, _, _, _, _, _, _)
RunFrom(q, i, inside, indexes, r_group, r_operator, r_logical) ==
    LET Closed(leafed) == IF i = inside THEN FinalizeGroup(leafed) ELSE leafed
        Rest(closed) ==
            IF closed.err # "" \/ i = Len(indexes) \/ ~has_filterable(closed.proprties)
            THEN closed
            ELSE RunFrom(_noterm_logical(closed, r_logical), i + 1, inside, indexes,
                         r_group, r_operator, r_logical)
        Leafed(leafed) == IF leafed.err # "" THEN leafed ELSE Rest(Closed(leafed))
    IN  Leafed(RunLeaf(q, r_group, indexes[i], r_operator))

GroupedRun(e, inside, indexes, r_group, r_operator, r_logical) ==
    RunFrom(_generate_child_group(BeforeGroup(e)), 1, inside, indexes,
            r_group, r_operator, r_logical)

\* the draws of a pool's get_proprty in these runs: the first, the middle and
\* the last property of the pool
IndexDraws == {0, 50, 99}

\* the runs, each with its entity type: on AllSingleValue every leaf from the
\* 1% pool (r_group = 0), four or three of four leaves or two of three in the
\* Group; on ThreeRequired two leaves in the Group and one after it
GroupedRuns ==
    {<<AllSingleValue, GroupedRun(AllSingleValue, shape[1], indexes, 0, r_operator, r_logical)>> :
        shape \in {<<4, 4>>, <<3, 4>>},
        indexes \in [1..4 -> IndexDraws], r_operator \in Draws, r_logical \in Draws}
    \cup {<<e, GroupedRun(e, 2, indexes, r_group, r_operator, r_logical)>> :
        e \in {AllSingleValue, ThreeRequired}, r_group \in {0, 99},
        indexes \in [1..3 -> IndexDraws], r_operator \in Draws, r_logical \in Draws}

InitRedundant ==
    /\ pc = "generating"
    /\ stack = <<>>
    /\ steps = 0
    /\ built = NotBuilt
    /\ del = NoDel
    /\ paging = None
    /\ qgroup = None
    /\ functions = None
    /\ UnitsIdle
    /\ \E run \in GroupedRuns :
        /\ run[2].err = ""
        /\ entity = run[1]
        /\ fq = run[2]

NextRedundant ==
    \/ Finish
    \/ Build

SpecRedundant == InitRedundant /\ [][NextRedundant]_vars



\* the Groups of before that are missing in after
RemovedGroups(before, after) == Ids(before.groups) \ Ids(after.groups)

\* delete_redundancies took before to after as C21 states it
RedundanciesDeleted(before, after) ==
    /\ \A i \in 1..Len(before.groups) :
        (before.groups[i].id \in RemovedGroups(before, after)) <=>
            /\ before.groups[i].logicals = <<>>
            /\ before.groups[i].left_id = NoId
            /\ before.groups[i].right_id = NoId
    /\ after.groups = SelectSeq(before.groups, LAMBDA g : g.id \in Ids(after.groups))
    /\ after.parts = before.parts
    /\ Len(after.logicals) = Len(before.logicals)
    /\ \A i \in 1..Len(before.logicals) :
        /\ after.logicals[i] =
            IF before.logicals[i].group_id \in RemovedGroups(before, after)
            THEN [before.logicals[i] EXCEPT !.group_id = NoId]
            ELSE before.logicals[i]
        /\ after.logicals[i].left_id \notin RemovedGroups(before, after)
        /\ after.logicals[i].right_id \notin RemovedGroups(before, after)

\* C21: delete_redundancies, the last step of generate(), removes a Group
\* exactly when it has no member Logicals and no left_id/right_id connector,
\* removes the group_id of every Logical that pointed to a removed Group and
\* leaves every other Group, Logical and Part unchanged; no remaining Logical's
\* left_id or right_id names a removed Group
C21_RemovesOnlyEmptyUnconnectedGroups ==
    [][Finish => RedundanciesDeleted(reverse_logicals(fq.option), fq'.option)]_vars

\* what holds: a Group is removed when it has no member Logicals or no
\* connector, and the rest of the claim
C21_RemovesEmptyOrUnconnectedGroups ==
    [][Finish =>
        LET before == reverse_logicals(fq.option)
            after == fq'.option
        IN  /\ \A i \in 1..Len(before.groups) :
                (before.groups[i].id \in RemovedGroups(before, after)) <=>
                    \/ before.groups[i].logicals = <<>>
                    \/ before.groups[i].left_id = NoId /\ before.groups[i].right_id = NoId
            /\ after.parts = before.parts
            /\ \A i \in 1..Len(before.logicals) :
                /\ after.logicals[i] =
                    IF before.logicals[i].group_id \in RemovedGroups(before, after)
                    THEN [before.logicals[i] EXCEPT !.group_id = NoId]
                    ELSE before.logicals[i]
                /\ after.logicals[i].left_id \notin RemovedGroups(before, after)
                /\ after.logicals[i].right_id \notin RemovedGroups(before, after)]_vars

\* generate() returned an option whose string has a parenthesis and whose
\* graph has no Group: the Group held all three Logicals and had no connector
C21_Witness ==
    /\ pc = "generated"
    /\ fq.option.groups = <<>>
    /\ fq.option_string[1] = LP
    /\ Len(fq.option.logicals) = 3
    /\ \A i \in 1..3 : fq.option.logicals[i].group_id = NoId


\* the Groups of option nested in the Groups of `groups`, down to any depth:
\* a Group is nested in another when a Logical of that one borders it
RECURSIVE NestedGroups(_, _)
NestedGroups(option, groups) ==
    LET members == {j \in 1..Len(option.logicals) : option.logicals[j].group_id \in groups}
        bordered == {option.logicals[i].left_id : i \in members}
                        \cup {option.logicals[i].right_id : i \in members}
        Grown(more) == IF more \subseteq groups THEN groups
                       ELSE NestedGroups(option, groups \cup more)
    IN  Grown(bordered \cap Ids(option.groups))

\* the subtree of a Group: the Group and the Groups nested in it, the Logicals
\* whose group_id is one of them, and the Parts these Logicals border
SubtreeGroups(option, group_id) == NestedGroups(option, {group_id})

SubtreeLogicals(option, group_id) ==
    {option.logicals[i].id : i \in {j \in 1..Len(option.logicals) :
        option.logicals[j].group_id \in SubtreeGroups(option, group_id)}}

SubtreeParts(option, group_id) ==
    {option.parts[p].id : p \in {k \in 1..Len(option.parts) :
        \E i \in 1..Len(option.logicals) :
            /\ option.logicals[i].id \in SubtreeLogicals(option, group_id)
            /\ option.parts[k].id \in {option.logicals[i].left_id,
                                       option.logicals[i].right_id}}}

\* C22: when the side selected for remove_adjacent is a Group, every Logical
\* whose group_id is that Group or a Group nested in it, every Part adjacent to
\* those Logicals and every nested Group are absent afterwards, and no node
\* outside the subtree (the Logical handed over aside) is removed
C22_GroupSubtreeRemoved ==
    (pc = "deleted" /\ del.err = "" /\ HasId(fq.option.groups, del.selected)) =>
        LET gone == (Ids(fq.option.parts) \cup Ids(fq.option.logicals)
                        \cup Ids(fq.option.groups))
                    \ (Ids(del.value.parts) \cup Ids(del.value.logicals)
                        \cup Ids(del.value.groups))
            subtree == SubtreeGroups(fq.option, del.selected)
                        \cup SubtreeLogicals(fq.option, del.selected)
                        \cup SubtreeParts(fq.option, del.selected)
        IN  /\ subtree \subseteq gone
            /\ gone \subseteq subtree \cup {del.logical}

\* C22 with the pruning: the subtree of the selected Group is absent
\* afterwards, and whatever else is gone is the Logical handed over or a Group
\* whose member Logicals were all among the removed ones
C22_GroupSubtreeRemovedOrPruned ==
    (pc = "deleted" /\ del.err = "" /\ HasId(fq.option.groups, del.selected)) =>
        LET gone == (Ids(fq.option.parts) \cup Ids(fq.option.logicals)
                        \cup Ids(fq.option.groups))
                    \ (Ids(del.value.parts) \cup Ids(del.value.logicals)
                        \cup Ids(del.value.groups))
            subtree == SubtreeGroups(fq.option, del.selected)
                        \cup SubtreeLogicals(fq.option, del.selected)
                        \cup SubtreeParts(fq.option, del.selected)
        IN  /\ subtree \subseteq gone
            /\ \A id \in gone \ subtree :
                \/ id = del.logical
                \/ /\ HasId(fq.option.groups, id)
                   /\ SeqToSet(dict_by_id(fq.option.groups, id).logicals)
                        \subseteq SubtreeLogicals(fq.option, del.selected) \cup {del.logical}

\* the Group on the selected side held a nested Group, and the Group around
\* both lost its only member Logical and was pruned
C22_Witness ==
    /\ pc = "deleted"
    /\ del.err = ""
    /\ HasId(fq.option.groups, del.selected)
    /\ Cardinality(SubtreeLogicals(fq.option, del.selected)) >= 1
    /\ Cardinality(SubtreeParts(fq.option, del.selected)) >= 2
    /\ Len(del.value.parts) >= 1
    /\ \E i \in 1..Len(fq.option.groups) :
        /\ fq.option.groups[i].id \notin SubtreeGroups(fq.option, del.selected)
        /\ fq.option.groups[i].id \notin Ids(del.value.groups)


\* the Groups remove_adjacent pruned for having no member Logicals left: the
\* Groups that are gone and were not in the subtree of a selected Group
PrunedGroups ==
    (Ids(fq.option.groups) \ Ids(del.value.groups))
        \ (IF HasId(fq.option.groups, del.selected)
           THEN SubtreeGroups(fq.option, del.selected) ELSE {})

\* the ids the Logicals (but for `except`), Parts and Groups of value hold
ReferencesOf(value, except) ==
    {value.logicals[i].left_id : i \in {j \in 1..Len(value.logicals) : value.logicals[j].id # except}}
    \cup {value.logicals[i].right_id : i \in {j \in 1..Len(value.logicals) : value.logicals[j].id # except}}
    \cup {value.logicals[i].group_id : i \in {j \in 1..Len(value.logicals) : value.logicals[j].id # except}}
    \cup {value.parts[i].left_id : i \in 1..Len(value.parts)}
    \cup {value.parts[i].right_id : i \in 1..Len(value.parts)}
    \cup {value.groups[i].left_id : i \in 1..Len(value.groups)}
    \cup {value.groups[i].right_id : i \in 1..Len(value.groups)}

\* C23: after remove_adjacent on a generated graph no Group with an empty
\* 'logicals' list remains, and no remaining Logical, Part or Group references
\* a Group that was pruned for being empty
C23_NoEmptyGroupNoReferenceToPruned ==
    pc = "deleted" =>
        /\ del.err = ""
        /\ \A i \in 1..Len(del.value.groups) : del.value.groups[i].logicals # <<>>
        /\ ReferencesOf(del.value, NoId) \cap PrunedGroups = {}

\* what holds: the same with the Logical handed over left out of account
C23_ApartFromTheLogical ==
    pc = "deleted" =>
        /\ del.err = ""
        /\ \A i \in 1..Len(del.value.groups) : del.value.groups[i].logicals # <<>>
        /\ ReferencesOf(del.value, del.logical) \cap PrunedGroups = {}

\* a Group lost its only member Logical to the call and was pruned, and the
\* Logical, left in 'logicals', still carries its group_id
C23_Witness ==
    /\ pc = "deleted"
    /\ del.err = ""
    /\ PrunedGroups # {}
    /\ HasId(del.value.logicals, del.logical)
    /\ dict_by_id(del.value.logicals, del.logical).group_id \in PrunedGroups


----------------------------------------------------------------------------
(* ExpandQuery: its construction by QueryGroup._init_expand_query and      *)
(* generate().  qgroup is [group, expand, option]: the QueryGroup, its     *)
(* ExpandQuery (made only if the QueryGroup has one) and the outcome of    *)
(* the last generate().  A path is the sequence of the names a/b joins.    *)

MAX_EXPAND_VALUES == 3

\* navigation_proprty.to_role.entity_type.nav_proprties
ToRoleNavProprties(name) ==
    IF name = "N1" THEN <<"N3", "N4">> ELSE <<>>

ExpandEntitySets ==
    [proprties : {<<P1, P2>>},
     nav_proprties : {<<>>, <<"N1">>, <<"N2">>, <<"N1", "N2">>},
     req_filter : {FALSE},
     addressable : {TRUE},
     topable : {FALSE},
     pageable : {FALSE},
     patched : {FALSE}]

\* restrictions of $expand: the entity set under GLOBAL_ENTITY, navigation
\* properties under NAV_PROPRTY or the name of the entity set
ExpandRestrictions ==
    {[NoRestrictions EXCEPT !.given = TRUE, !.entities = entities, !.nav_proprties = excluded] :
        entities \in {{}, {"expand"}}, excluded \in SUBSET {"N1", "N2"}}
    \cup {NoRestrictions}

\* ExpandQuery._init_possible_paths
_init_possible_paths(entity_set) ==
    UNION {{<<entity_set.nav_proprties[i]>>}
           \cup {<<entity_set.nav_proprties[i], ToRoleNavProprties(entity_set.nav_proprties[i])[j]>> :
                    j \in 1..Len(ToRoleNavProprties(entity_set.nav_proprties[i]))} :
           i \in 1..Len(entity_set.nav_proprties)}

\* ExpandQuery(entity, restrictions)
NewExpandQuery(entity_set) ==
    [made |-> TRUE, entity_set |-> entity_set,
     navigation_paths |-> _init_possible_paths(entity_set)]

\* no ExpandQuery in self._query_options
NoExpandQuery(entity_set) ==
    [made |-> FALSE, entity_set |-> entity_set, navigation_paths |-> {}]

\* no generate() yet
NotGenerated == [err |-> "not generated", paths |-> <<>>]

\* the lists random.sample(population, k) can return
RECURSIVE RandomSamples(_, _)
RandomSamples(population, k) ==
    IF k = 0 THEN {<<>>}
    ELSE UNION {{<<x>> \o rest : rest \in RandomSamples(population \ {x}, k - 1)} :
                    x \in population}

\* ExpandQuery._get_random_entity_paths with random.random() = r / 100: the
\* lists it can return, or the exception of random.sample
_get_random_entity_paths(expand, r) ==
    LET paths_num == Cardinality(expand.navigation_paths)
        max_values == IF paths_num > MAX_EXPAND_VALUES THEN MAX_EXPAND_VALUES ELSE paths_num
        num_of_entities == RoundHalfEven(r * (max_values - 1), 100) + 1
    IN  IF num_of_entities < 0 \/ num_of_entities > paths_num
        THEN {[err |-> "ValueError", paths |-> <<>>]}
        ELSE {[err |-> "", paths |-> random_entities] :
                random_entities \in RandomSamples(expand.navigation_paths, num_of_entities)}

InitExpand ==
    /\ FilterIdle
    /\ UnitsIdle
    /\ paging = None
    /\ functions = None
    /\ \E entity_set \in ExpandEntitySets, restrictions \in ExpandRestrictions :
        qgroup = [group |-> NewGroupOf(entity_set, restrictions),
                  expand |-> NoExpandQuery(entity_set), option |-> NotGenerated]

\* QueryGroup._init_expand_query
InitExpandQuery ==
    /\ qgroup.group.phase = "new"
    /\ LET group == qgroup.group
           entity_set == IF group.restrictions.given
                         THEN _delete_restricted_nav_proprties(group.entity_set,
                                                               group.restrictions)
                         ELSE group.entity_set
           made == _init_expand_query(group)
       IN  qgroup' = [qgroup EXCEPT
                        !.group = [made EXCEPT !.phase = "constructed"],
                        !.expand = IF "expand" \in SeqToSet(made.query_options)
                                   THEN NewExpandQuery(entity_set)
                                   ELSE NoExpandQuery(entity_set)]
    /\ UNCHANGED <<filterVars, paging, functions, units>>

\* ExpandQuery.generate(depending_data)
GenerateExpand ==
    /\ qgroup.group.phase = "constructed"
    /\ qgroup.expand.made
    /\ \E r \in Draws :
       \E option \in _get_random_entity_paths(qgroup.expand, r) :
            qgroup' = [qgroup EXCEPT !.option = option]
    /\ UNCHANGED <<filterVars, paging, functions, units>>

NextExpand ==
    \/ InitExpandQuery
    \/ GenerateExpand

SpecExpand == InitExpand /\ [][NextExpand]_vars

\* path is a one- or two-level navigation path of entity_set
IsNavigationPath(entity_set, path) ==
    /\ Len(path) \in {1, 2}
    /\ path[1] \in SeqToSet(entity_set.nav_proprties)
    /\ Len(path) = 2 => path[2] \in SeqToSet(ToRoleNavProprties(path[1]))

\* C24: an ExpandQuery exists only if a navigation property remains after the
\* exclusions, and every generate() returns, without failing, between 1 and
\* MAX_EXPAND_VALUES distinct one- or two-level navigation paths of the
\* restricted entity set
C24_ExpandQueryOnlyWithPathsGeneratesSome ==
    /\ qgroup.expand.made => qgroup.expand.entity_set.nav_proprties # <<>>
    /\ qgroup.option # NotGenerated =>
        /\ qgroup.option.err = ""
        /\ Len(qgroup.option.paths) \in 1..MAX_EXPAND_VALUES
        /\ \A i, j \in 1..Len(qgroup.option.paths) :
                i # j => qgroup.option.paths[i] # qgroup.option.paths[j]
        /\ \A i \in 1..Len(qgroup.option.paths) :
                IsNavigationPath(qgroup.expand.entity_set, qgroup.option.paths[i])

\* what holds: the same whenever a navigation property remains
C24_GeneratesSomeWhenPathsRemain ==
    (/\ qgroup.option # NotGenerated
     /\ qgroup.expand.entity_set.nav_proprties # <<>>) =>
        /\ qgroup.option.err = ""
        /\ Len(qgroup.option.paths) \in 1..MAX_EXPAND_VALUES
        /\ \A i, j \in 1..Len(qgroup.option.paths) :
                i # j => qgroup.option.paths[i] # qgroup.option.paths[j]
        /\ \A i \in 1..Len(qgroup.option.paths) :
                IsNavigationPath(qgroup.expand.entity_set, qgroup.option.paths[i])

\* an ExpandQuery of an entity set all of whose navigation properties are
\* excluded, and its generate() failed
C24_Witness ==
    /\ qgroup.expand.made
    /\ qgroup.group.given.nav_proprties # <<>>
    /\ qgroup.expand.entity_set.nav_proprties = <<>>
    /\ qgroup.option.err = "ValueError"


----------------------------------------------------------------------------
(* The dispatcher over the life of a QueryGroup: the construction, which    *)
(* builds the TopQuery and the SkipQuery, then random_options() and the     *)
(* generate() calls.  Before the construction paging holds what the         *)
(* include restrictions say and what the service would answer.              *)

ProbeEntitySets ==
    {entity_set \in EntitySets :
        /\ entity_set.topable /\ entity_set.pageable
        /\ entity_set.addressable /\ ~entity_set.req_filter
        /\ entity_set.proprties = <<P3>> /\ entity_set.nav_proprties = <<>>}

ProbeRestrictions ==
    {restrictions \in Restrictions \cup {NoRestrictions} :
        /\ restrictions.entities = {}
        /\ restrictions.draft = <<>>}

ProbeResponses ==
    {response \in Responses : response.kind = "integer" => response.count = 3}

InitProbe ==
    /\ FilterIdle
    /\ UnitsIdle
    /\ functions = None
    /\ \E entity_set \in ProbeEntitySets, restrictions \in ProbeRestrictions,
          response \in ProbeResponses :
        /\ qgroup = NewGroupOf(entity_set, restrictions)
        /\ paging = [max_values |-> IF "top" \in restrictions.include THEN 3 ELSE Absent,
                     skip_total |-> IF "skip" \in restrictions.include THEN 3 ELSE INT_MAX,
                     response |-> response,
                     requests |-> <<>>]

\* QueryGroup(entity_set, restrictions, dispatcher, principal_entities), its
\* TopQuery and SkipQuery included
ConstructGroup ==
    /\ qgroup.phase = "new"
    /\ qgroup' = [_init_accessible_entity_path(_init_group(qgroup))
                    EXCEPT !.phase = "constructed"]
    /\ paging' = NewPaging(paging.max_values, paging.response, paging.skip_total)
    /\ UNCHANGED <<filterVars, functions, units>>

\* TopQuery.generate of the constructed QueryGroup
GroupTopGenerate ==
    /\ qgroup.phase # "new"
    /\ TopGenerate

\* SkipQuery.generate of the constructed QueryGroup
GroupSkipGenerate ==
    /\ qgroup.phase # "new"
    /\ SkipGenerate

NextProbe ==
    \/ ConstructGroup
    \/ RandomOptions
    \/ GroupTopGenerate
    \/ GroupSkipGenerate

SpecProbe == InitProbe /\ [][NextProbe]_vars

\* C25: the dispatcher is asked for the count only while the TopQuery is
\* constructed, at most once, and not at all when the include restriction
\* gives the count; no generate() and no random_options() asks it anything
C25_ProbeOnlyAtConstruction ==
    [][/\ qgroup.phase = "new" =>
            /\ paging.requests = <<>>
            /\ Len(paging'.requests) <= 1
            /\ paging.max_values # Absent => paging'.requests = <<>>
       /\ qgroup.phase # "new" => paging'.requests = paging.requests]_vars

\* the TopQuery asked for the count once, and a $top value and a $skip value
\* were generated and options drawn since
C25_Witness ==
    /\ qgroup.phase = "selected"
    /\ paging.requests = <<"$count">>
    /\ paging.top.probe = "integer"
    /\ paging.top.depending_data > 0
    /\ paging.skip.depending_data > 0


----------------------------------------------------------------------------
(* get_principal_entities(data_model, entity_set).  An association set is   *)
(* [ends, principal, multiplicity]: its ends, each [entity_set, role], the  *)
(* name of referential_constraint.principal (None without one) and the      *)
(* multiplicity end_by_role gives for each role.  accessible is             *)
(* [data_model, entity_set, principal_entities, state].                     *)

Roles == <<"r1", "r2", "r3">>

Multiplicities == {"1", "0..1", "*"}

\* the association sets with 1, 2 or 3 ends over the entity sets E and F
AssociationSets ==
    {[ends |-> [i \in 1..Len(names) |-> [entity_set |-> names[i], role |-> Roles[i]]],
      principal |-> principal,
      multiplicity |-> [role \in {"r1", "r2", "r3"} |->
                            IF role = "r1" THEN first
                            ELSE IF role = "r2" THEN second ELSE "*"]] :
        names \in {<<"E">>, <<"E", "F">>, <<"F", "E">>, <<"E", "E">>, <<"F", "F">>,
                   <<"E", "F", "F">>},
        principal \in {None, "r1", "r2"},
        first \in {"1", "*"},
        second \in Multiplicities}

\* the data models get_principal_entities is called with
DataModels ==
    {<<a>> : a \in AssociationSets}
    \cup {<<a, b>> : a \in AssociationSets,
                     b \in {c \in AssociationSets : c.multiplicity["r1"] = "1"
                                                    /\ c.principal # "r1"}}

\* an index that stays on the end it was found at
SameIndex(index) == index

\* index ^ 1, indexes counted from 0
Xor1(index) == IF index % 2 = 0 THEN index + 1 ELSE index - 1

\* EndsPrincipal.get_principal(index): None, or the entity set
EndsPrincipalGetPrincipal(association_set, index) ==
    LET principal_end == association_set.ends[index + 1]
        principal == association_set.principal
    IN  IF principal # None /\ principal = principal_end.role
        THEN principal_end.entity_set
        ELSE None

\* MultiplicityPrincipal.get_principal(index)
MultiplicityPrincipalGetPrincipal(association_set, index) ==
    LET association_set_end == association_set.ends[index + 1]
    IN  IF association_set.multiplicity[association_set_end.role] = "1"
        THEN association_set_end.entity_set
        ELSE None

\* PrincipalGetter.may_contain_principal_entity()
may_contain_principal_entity(association_set) ==
    Len(association_set.ends) = 2

\* the loop of PrincipalGetter.get() from the end at index on
RECURSIVE PrincipalGetterLoop(_, _, _, _)
PrincipalGetterLoop(getter, association_set, entity_set, index) ==
    IF index >= Len(association_set.ends) THEN None
    ELSE IF association_set.ends[index + 1].entity_set = entity_set
    THEN LET principal_entity_index == Xor1(index)
         IN  IF getter = "EndsPrincipal"
             THEN EndsPrincipalGetPrincipal(association_set, principal_entity_index)
             ELSE MultiplicityPrincipalGetPrincipal(association_set, principal_entity_index)
    ELSE PrincipalGetterLoop(getter, association_set, entity_set, index + 1)

\* PrincipalGetter.get()
PrincipalGetterGet(getter, association_set, entity_set) ==
    IF may_contain_principal_entity(association_set)
    THEN PrincipalGetterLoop(getter, association_set, entity_set, 0)
    ELSE None

\* get_principal_entities(data_model, entity_set)
RECURSIVE get_principal_entities(_, _)
get_principal_entities(association_sets, entity_set) ==
    IF association_sets = <<>> THEN <<>>
    ELSE LET association_set == Head(association_sets)
             by_ends == PrincipalGetterGet("EndsPrincipal", association_set, entity_set)
             by_multiplicity ==
                PrincipalGetterGet("MultiplicityPrincipal", association_set, entity_set)
             found == IF by_ends # None THEN <<by_ends>>
                      ELSE IF by_multiplicity # None THEN <<by_multiplicity>>
                      ELSE <<>>
         IN  found \o get_principal_entities(Tail(association_sets), entity_set)

InitPrincipal ==
    /\ FilterIdle
    /\ paging = None
    /\ qgroup = None
    /\ functions = None
    /\ sampled = None
    /\ capability = None
    /\ selector = None
    /\ earlier = None
    /\ \E data_model \in DataModels :
        accessible = [data_model |-> data_model, entity_set |-> "E",
                      principal_entities |-> <<>>, state |-> "new"]

\* principal_entities = get_principal_entities(data_model, entity_set)
GetPrincipalEntities ==
    /\ accessible.state = "new"
    /\ accessible' = [accessible EXCEPT
                        !.principal_entities =
                            get_principal_entities(accessible.data_model, accessible.entity_set),
                        !.state = "done"]
    /\ UNCHANGED <<filterVars, paging, qgroup, functions, sampled, capability, selector, earlier>>

NextPrincipal == GetPrincipalEntities

SpecPrincipal == InitPrincipal /\ [][NextPrincipal]_vars

\* what an association set contributes for the entity set: with exactly two
\* ends, one of them (the first such) the entity set's, the entity set of the
\* opposite end if its role is the principal role of the referential
\* constraint, otherwise if its multiplicity is "1"; else nothing
Contribution(association_set, entity_set) ==
    LET ends == association_set.ends
        own == {i \in 1..Len(ends) : ends[i].entity_set = entity_set}
    IN  IF Len(ends) # 2 \/ own = {} THEN <<>>
        ELSE LET opposite == ends[3 - (CHOOSE i \in own : \A j \in own : i <= j)]
             IN  IF association_set.principal # None
                    /\ association_set.principal = opposite.role
                 THEN <<opposite.entity_set>>
                 ELSE IF association_set.multiplicity[opposite.role] = "1"
                 THEN <<opposite.entity_set>>
                 ELSE <<>>

\* C26: get_principal_entities returns, association set by association set,
\* the opposite end's entity set when that end is the referential-constraint
\* principal role, otherwise when its multiplicity is exactly "1"; association
\* sets without the entity set or without exactly two ends give nothing, and
\* no association set gives more than one principal
C26_PrincipalsByRoleThenMultiplicity ==
    accessible.state = "done" =>
        LET data_model == accessible.data_model
            first == Contribution(data_model[1], accessible.entity_set)
            second == IF Len(data_model) = 2
                      THEN Contribution(data_model[2], accessible.entity_set) ELSE <<>>
        IN  /\ accessible.principal_entities = first \o second
            /\ Len(first) <= 1
            /\ Len(second) <= 1

\* two association sets: in the first the opposite end is the principal role
\* though its multiplicity is "*", in the second it is not the principal role
\* but has multiplicity "1"
C26_Witness ==
    /\ accessible.state = "done"
    /\ Len(accessible.data_model) = 2
    /\ Len(accessible.data_model[1].ends) = 2
    /\ Len(accessible.data_model[2].ends) = 2
    /\ accessible.data_model[1].ends[1].entity_set = "E"
    /\ accessible.data_model[1].ends[2].entity_set = "F"
    /\ accessible.data_model[1].principal = "r2"
    /\ accessible.data_model[1].multiplicity["r2"] = "*"
    /\ accessible.data_model[2].ends[1].entity_set = "F"
    /\ accessible.data_model[2].ends[2].entity_set = "E"
    /\ accessible.data_model[2].principal = "r2"
    /\ accessible.data_model[2].multiplicity["r1"] = "1"
    /\ accessible.principal_entities = <<"F", "F">>


\* C27: for every FilterOption generate() returned, build() returns exactly
\* the option_string the generator accumulated: the same leaves, connectives
\* and parentheses in the same order
C27_BuildReturnsOptionString ==
    pc = "built" =>
        /\ built.err = ""
        /\ built.string = fq.option.option_string


\* the tokens of string that are not parentheses
WithoutParentheses(string) ==
    SelectSeq(string, LAMBDA token : token.kind \notin {"(", ")"})

\* what holds: build() returns the leaves and connectives of option_string in
\* the same order, and the whole of it when every Group the generator opened
\* is still in the graph
C27_BuildReturnsOptionStringOfKeptGroups ==
    pc = "built" =>
        /\ built.err = ""
        /\ WithoutParentheses(built.string) = WithoutParentheses(fq.option.option_string)
        /\ Len(fq.option.groups) = Len(SelectSeq(fq.option.option_string,
                                                 LAMBDA token : token.kind = "("))
            => built.string = fq.option.option_string

\* the generator wrapped the whole expression in a Group, delete_redundancies
\* removed it, and build() returned the expression without the parentheses
C27_Witness ==
    /\ pc = "built"
    /\ built.err = ""
    /\ fq.option.groups = <<>>
    /\ fq.option.option_string[1] = LP
    /\ built.string = WithoutParentheses(fq.option.option_string)
    /\ built.string # fq.option.option_string


\* the parentheses in the option string accumulated so far
Parentheses(q) ==
    SelectSeq(q.option_string, LAMBDA token : token.kind \in {"(", ")"})

\* C28: a Group is created during generate() only while has_remaining() still
\* returns true, hence only before the first leaf: with fewer than three
\* required properties no Group is created and no parenthesis emitted, and
\* _generate_child_group is never entered with _right_part set
C28_GroupOnlyWhileRemaining ==
    [][pc = "generating" =>
        /\ (/\ Running("generate_child")
            /\ stack' # <<>>
            /\ Head(stack') = "child_group") => has_remaining(fq.proprties)[1]
        /\ Running("child_group") => ~fq.right_part
        /\ (\/ Len(fq'.option.groups) > Len(fq.option.groups)
            \/ Len(Parentheses(fq')) > Len(Parentheses(fq))) =>
                /\ Top \in {"child_group", "close_group"}
                /\ Top = "child_group" => fq.option.parts = <<>>
                /\ Len(RequiredProprtiesOf(entity)) >= 3]_vars

\* two Groups were opened one inside the other before the first leaf, and the
\* run has ended
C28_Witness ==
    /\ pc = "generated"
    /\ Len(fq.option.groups) = 2
    /\ Len(fq.option_string) >= 2
    /\ fq.option_string[1] = LP
    /\ fq.option_string[2] = LP


----------------------------------------------------------------------------
(* Successive generate() calls of one FilterQuery.  earlier is [calls,      *)
(* option_id, returned]: the calls made before the running one, the         *)
(* identity of the FilterOption object the running call writes to, and the  *)
(* identities of the objects the earlier calls returned.                    *)

MaxCalls == 2

AgainConfigs ==
    { Entity(<<RSingle>>, None),
      Entity(<<Single>>, None),
      Entity(<<R1, PlainD>>, None),
      Entity(<<R1, R2, R3>>, None) }

\* an _init_variables that hands the lists themselves to the ProprtiesSelector:
\* the call starts with what the call before left of them
InitVariablesUncopied(e, q) ==
    [InitVariables(e) EXCEPT
        !.proprties = ProprtiesSelector(q.proprties.filterable, q.proprties.required)]

\* _init_variables of a FilterQuery whose fields the call before left as q:
\* every field is assigned anew, the selector gets copies of the two lists
InitVariablesAgain(e, q) == InitVariables(e)

InitAgain ==
    /\ pc = "idle"
    /\ entity \in AgainConfigs
    /\ fq = InitVariables(entity)
    /\ stack = <<>>
    /\ steps = 0
    /\ built = NotBuilt
    /\ del = NoDel
    /\ paging = None
    /\ qgroup = None
    /\ functions = None
    /\ accessible = None
    /\ sampled = None
    /\ capability = None
    /\ selector = None
    /\ earlier = [calls |-> 0, option_id |-> 1, returned |-> <<>>]

\* generate() once more, after a call that returned or raised
GenerateAgain ==
    /\ pc \in {"generated", "raised"}
    /\ earlier.calls + 1 < MaxCalls
    /\ \E r \in Draws :
        LET q == InitVariablesAgain(entity, fq)
        IN  /\ pc' = "generating"
            /\ IF RequiredProprtiesOf(entity) = <<>> /\ r < SINGLE_VALUE_PROB
               THEN /\ fq' = [q EXCEPT !.option = add_part(@)]
                    /\ stack' = <<"proprty">>
               ELSE /\ fq' = q
                    /\ stack' = <<"expression">>
    /\ steps' = 0
    /\ earlier' = [calls |-> earlier.calls + 1,
                   option_id |-> earlier.option_id + 1,
                   returned |-> IF pc = "generated"
                                THEN Append(earlier.returned, earlier.option_id)
                                ELSE earlier.returned]
    /\ UNCHANGED <<entity, built, del, paging, qgroup, functions,
                   accessible, sampled, capability, selector>>

NextAgain ==
    \/ NextGenerate
    \/ GenerateAgain

SpecAgain == InitAgain /\ [][NextAgain]_vars

\* C29: successive generate() calls are independent: each starts from the full
\* filterable and required lists, a has_remaining() budget not yet spent and
\* an empty graph, whatever the call before consumed, and the FilterOption an
\* earlier call returned is not modified by a later call
C29_GenerateCallsIndependent ==
    [][/\ earlier'.calls > earlier.calls =>
            /\ fq'.proprties = ProprtiesSelector(FilterableProprties(entity),
                                                 RequiredProprtiesOf(entity))
            /\ fq'.proprties.times_called_has_remaining = 0
            /\ fq'.option.logicals = <<>>
            /\ fq'.option.groups = <<>>
            /\ fq'.option_string = <<>>
            /\ fq'.recursion_depth = 0
       /\ \A i \in 1..Len(earlier.returned) :
            /\ earlier'.returned[i] = earlier.returned[i]
            /\ earlier.returned[i] # earlier'.option_id
       /\ fq'.option # fq.option => earlier'.option_id \notin SeqToSet(earlier'.returned)]_vars

\* the first call consumed the only property, required and single-value, and
\* returned; the second call selected the property again and returned
C29_Witness ==
    /\ pc = "generated"
    /\ entity = Entity(<<RSingle>>, None)
    /\ earlier.calls = 1
    /\ earlier.returned = <<1>>
    /\ earlier.option_id = 2
    /\ fq.option.parts # <<>>
    /\ fq.option.parts[1].name = PropName("RS")
    /\ fq.proprties.required = <<>>
    /\ fq.proprties.filterable = <<>>


----------------------------------------------------------------------------
(* The func_ methods of the three function classes.  functions is           *)
(* [group, last]: the properties each family's wrapper holds and the        *)
(* outcome of the last func_ call, [func, proprties, params,                *)
(* generated_string, function_type, err]; generated_string is the function  *)
(* name followed by its arguments.                                          *)

StringProprty(name, max_string_length) ==
    [name |-> name, typ |-> "Edm.String", max_string_length |-> max_string_length]

\* the properties the wrappers of an entity set can hold
WrapperGroups ==
    [String : {<<StringProprty("T1", 5)>>, <<StringProprty("T1", 5), StringProprty("T2", 7)>>},
     Date : {<<[name |-> "U1", typ |-> "Edm.DateTime", max_string_length |-> 0]>>,
             <<[name |-> "U1", typ |-> "Edm.DateTime", max_string_length |-> 0],
               [name |-> "U2", typ |-> "Edm.DateTime", max_string_length |-> 0]>>},
     Math : {<<[name |-> "D", typ |-> "Edm.Decimal", max_string_length |-> 0]>>}]

\* the values RandomGenerator.edm_string and proprty.generate() give
Literals == {"'v'", "'w'"}

\* FunctionsBool(name), FunctionsInt(name), FunctionsString(name, proprty)
FunctionsBool(name) ==
    [return_type |-> "Edm.Boolean", operators |-> BOOLEAN_OPERATORS, name |-> name,
     max_string_length |-> 0]

FunctionsInt(name) ==
    [return_type |-> "Edm.Int32", operators |-> EXPRESSION_OPERATORS, name |-> name,
     max_string_length |-> 0]

FunctionsString(name, proprty) ==
    [return_type |-> "Edm.String", operators |-> EXPRESSION_OPERATORS, name |-> name,
     max_string_length |-> proprty.max_string_length]

\* FilterFunction(proprties, params, generated_string, function_type)
FilterFunction(func, proprties, params, generated_string, function_type) ==
    [func |-> func, proprties |-> proprties, params |-> params,
     generated_string |-> generated_string, function_type |-> function_type, err |-> ""]

\* a func_ call that raised
FunctionRaised(func, exception) ==
    [func |-> func, proprties |-> <<>>, params |-> <<>>, generated_string |-> <<>>,
     function_type |-> FunctionsInt(""), err |-> exception]

\* no params: None
NoParams == <<None>>

\* the func_ methods but func_concat, called on the property chosen, with
\* the literals and the integer drawn
FunctionCall(func, proprty, value, literal2, int32) ==
    CASE func \in {"day", "hour", "minute", "month", "second"} ->
            FilterFunction(func, <<proprty.name>>, NoParams, <<func, proprty.name>>,
                           FunctionsInt(func))
      [] func = "year" ->
            FilterFunction(func, <<proprty.name>>, NoParams, <<func, proprty.name>>,
                           FunctionsInt("second"))
      [] func \in {"round", "floor", "ceiling"} ->
            FilterFunction(func, <<proprty.name>>, NoParams, <<func, proprty.name>>,
                           FunctionsInt(func))
      [] func \in {"substringof", "endswith", "startswith"} ->
            FilterFunction(func, <<proprty.name>>, <<value>>, <<func, proprty.name, value>>,
                           FunctionsBool(func))
      [] func = "length" ->
            FilterFunction(func, <<proprty.name>>, <<value>>, <<func, proprty.name>>,
                           FunctionsInt(func))
      [] func = "indexof" ->
            FilterFunction(func, <<proprty.name>>, <<value>>, <<func, proprty.name, value>>,
                           FunctionsInt(func))
      [] func = "replace" ->
            FilterFunction(func, <<proprty.name>>, <<value, literal2>>,
                           <<func, proprty.name, value, literal2>>,
                           FunctionsString(func, proprty))
      [] func = "substring" ->
            FilterFunction(func, <<proprty.name>>, <<int32>>, <<func, proprty.name, int32>>,
                           FunctionsString(func, proprty))
      [] func \in {"tolower", "toupper", "trim"} ->
            FilterFunction(func, <<proprty.name>>, NoParams, <<func, proprty.name>>,
                           FunctionsString(func, proprty))

\* a Python str: it has no attribute max_string_length
PyStr(value) == [str |-> value]

\* the loop of func_concat over proprty_list: <<max_length, exception>>
RECURSIVE ConcatMaxLength(_, _)
ConcatMaxLength(proprty_list, max_length) ==
    IF proprty_list = <<>> THEN <<max_length, "">>
    ELSE IF "max_string_length" \notin DOMAIN Head(proprty_list)
    THEN <<max_length, "AttributeError">>
    ELSE ConcatMaxLength(Tail(proprty_list), max_length + Head(proprty_list).max_string_length)

\* func_concat: r is random() in hundredths
func_concat(proprty, r, value, proprty2) ==
    LET proprty_list == IF r > 50 THEN <<PyStr(proprty.name)>>
                        ELSE <<PyStr(proprty.name), PyStr(proprty2.name)>>
        param_list == IF r > 50 THEN <<value>> ELSE NoParams
        generated_string == IF r > 50 THEN <<"concat", proprty.name, value>>
                            ELSE <<"concat", proprty.name, proprty2.name>>
        summed == ConcatMaxLength(proprty_list, 0)
    IN  IF summed[2] # "" THEN FunctionRaised("concat", summed[2])
        ELSE FilterFunction("concat",
                            [i \in 1..Len(proprty_list) |-> proprty_list[i].str],
                            param_list, generated_string,
                            FunctionsString("concat", [max_string_length |-> summed[1]]))

NoCall == FunctionRaised("", "not called")

InitFunctionCalls ==
    /\ FilterIdle
    /\ UnitsIdle
    /\ paging = None
    /\ qgroup = None
    /\ \E group \in WrapperGroups : functions = [group |-> group, last |-> NoCall]

\* function_call(functions_wrapper) of _generate_function, for a method other
\* than func_concat
CallFunction ==
    /\ \E family \in {"String", "Date", "Math"} :
       \E f \in 1..Len(FamilyFunctions(family)) :
       \E p \in 1..Len(functions.group[family]) :
       \E value \in Literals, literal2 \in Literals, int32 \in {"-7", "2147483647"} :
            /\ FamilyFunctions(family)[f] # "concat"
            /\ functions' = [functions EXCEPT
                                !.last = FunctionCall(FamilyFunctions(family)[f],
                                                      functions.group[family][p],
                                                      value, literal2, int32)]
    /\ UNCHANGED <<filterVars, paging, qgroup, units>>

\* function_call(functions_wrapper) for func_concat
CallConcat ==
    /\ \E p \in 1..Len(functions.group["String"]) :
       \E p2 \in 1..Len(functions.group["String"]) :
       \E r \in Draws, value \in Literals :
            functions' = [functions EXCEPT
                            !.last = func_concat(functions.group["String"][p], r, value,
                                                 functions.group["String"][p2])]
    /\ UNCHANGED <<filterVars, paging, qgroup, units>>

NextFunctionCalls ==
    \/ CallFunction
    \/ CallConcat

SpecFunctionCalls == InitFunctionCalls /\ [][NextFunctionCalls]_vars

\* the names and the largest string lengths of the properties a family holds
WrapperNames(family) ==
    {functions.group[family][i].name : i \in 1..Len(functions.group[family])}

\* a FilterFunction was returned: the names consumed, the parameters, the
\* call rendered and a typed return descriptor with its operators
ReturnedFilterFunction(last) ==
    /\ last.err = ""
    /\ last.proprties # <<>>
    /\ \E family \in {"String", "Date", "Math"} :
        /\ last.func \in SeqToSet(FamilyFunctions(family))
        /\ SeqToSet(last.proprties) \subseteq WrapperNames(family)
    /\ last.generated_string[1] = last.func
    /\ last.generated_string[2] = last.proprties[1]
    /\ last.function_type.return_type \in {"Edm.Boolean", "Edm.Int32", "Edm.String"}
    /\ last.function_type.operators \in {BOOLEAN_OPERATORS, EXPRESSION_OPERATORS}

\* the sum of the max_string_length of the properties named
RECURSIVE SumOfMaxStringLengths(_)
SumOfMaxStringLengths(names) ==
    IF names = <<>> THEN 0
    ELSE LET named == CHOOSE i \in 1..Len(functions.group["String"]) :
                        functions.group["String"][i].name = Head(names)
         IN  functions.group["String"][named].max_string_length
             + SumOfMaxStringLengths(Tail(names))

\* C30: every function generator of every family, func_concat in both its
\* branches included, returns without failing a FilterFunction with the
\* consumed property names, the parameters, the rendered call and a typed
\* return descriptor; for concat the descriptor's maximum string length is the
\* sum of those of the consumed properties
C30_EveryFunctionGeneratorReturns ==
    functions.last # NoCall =>
        /\ ReturnedFilterFunction(functions.last)
        /\ functions.last.func = "concat" =>
            functions.last.function_type.max_string_length
                = SumOfMaxStringLengths(functions.last.proprties)

\* what holds: every generator but func_concat returns such a FilterFunction
C30_EveryGeneratorButConcatReturns ==
    (functions.last # NoCall /\ functions.last.func # "concat") =>
        ReturnedFilterFunction(functions.last)

\* func_concat never returns
C30_ConcatRaises ==
    functions.last.func = "concat" => functions.last.err = "AttributeError"

\* func_concat was called and raised
C30_Witness ==
    /\ functions.last.func = "concat"
    /\ functions.last.err = "AttributeError"
    /\ Len(functions.group["String"]) = 2

====
